---- MODULE Spec2Model ----
(***************************************************************************)
(* Lyric loading of better-lyrics: the session state (AppState), the load  *)
(* chain of handleModifications, createLyrics with its suspension points,  *)
(* the provider registry (source map, getLyrics) and the provider adapters.*)
(***************************************************************************)
EXTENDS Integers, Sequences, FiniteSets, TLC

(* ---------------------------------------------------------------------- *)
(* Bounds                                                                  *)
(* ---------------------------------------------------------------------- *)
\* number of handleModifications calls issued by the player in one behaviour
MaxLoads == 3

(* ---------------------------------------------------------------------- *)
(* Program constants                                                       *)
(* ---------------------------------------------------------------------- *)
defaultPreferredProviderList ==
  << "bLyrics-richsynced", "musixmatch-richsync", "yt-captions", "lrclib-synced",
     "musixmatch-synced", "bLyrics-synced", "yt-lyrics", "lrclib-plain" >>

sourceKeyToFillFn ==
  [ k \in { "bLyrics-richsynced", "bLyrics-synced", "musixmatch-richsync",
            "musixmatch-synced", "lrclib-synced", "lrclib-plain",
            "yt-captions", "yt-lyrics" } |->
      CASE k \in {"bLyrics-richsynced", "bLyrics-synced"}       -> "bLyrics"
        [] k \in {"musixmatch-richsync", "musixmatch-synced"}   -> "cubey"
        [] k \in {"lrclib-synced", "lrclib-plain"}              -> "lyricLib"
        [] k = "yt-captions"                                    -> "ytCaptions"
        [] OTHER                                                -> "ytLyrics" ]

LyricSourceKey == DOMAIN sourceKeyToFillFn

\* the slots the cubey adapter marks as filled
CubeySlots == {"musixmatch-synced", "musixmatch-richsync", "lrclib-synced", "lrclib-plain"}

\* similarity threshold of the cross-validation, as the fraction SimNum/SimDen
SimNum == 1
SimDen == 2

NO_LYRICS_TEXT == <<"N", "o">>

DEFAULT_LINE_SYNCED_WORD_DELAY_MS == 50

(* ---------------------------------------------------------------------- *)
(* Values                                                                  *)
(* ---------------------------------------------------------------------- *)
\* a LyricSourceResult; the JavaScript null is the record with isNull = TRUE,
\* a result whose lyrics field is null has lyrics = << >>
NullResult ==
  [ isNull |-> TRUE, lyrics |-> << >>, text |-> << >>, source |-> "",
    musicVideoSynced |-> FALSE, cacheAllowed |-> FALSE,
    song |-> "", artist |-> "", album |-> "", duration |-> 0 ]

Result(lines, src, mvs, cache) ==
  [ NullResult EXCEPT !.isNull = FALSE, !.lyrics = lines, !.source = src,
                      !.musicVideoSynced = mvs, !.cacheAllowed = cache ]

Line(t, w) == [ startTimeMs |-> t, words |-> w, durationMs |-> 0 ]

newSourceMap == [ k \in LyricSourceKey |-> [ filled |-> FALSE, lyricSourceResult |-> NullResult ] ]

(* ---------------------------------------------------------------------- *)
(* Pure functions                                                          *)
(* ---------------------------------------------------------------------- *)
\* String.prototype.toLowerCase on the characters used by the model
toLowerCase(str) ==
  [ i \in 1..Len(str) |->
      CASE str[i] = "A" -> "a"
        [] str[i] = "B" -> "b"
        [] str[i] = "C" -> "c"
        [] OTHER -> str[i] ]

\* str.substring(i, i + 2), 1-based
substring2(str, i) == << str[i], str[i + 1] >>

\* first loop of stringSimilarity: occurrences of every bigram of str1
bigramMap(str1) ==
  [ b \in { substring2(str1, i) : i \in 1..(Len(str1) - 1) } |->
      Cardinality({ i \in 1..(Len(str1) - 1) : substring2(str1, i) = b }) ]

\* second loop of stringSimilarity: consume one occurrence per matching bigram of str2
RECURSIVE matchLoop(_, _, _, _)
matchLoop(str2, j, map, match) ==
  IF j > Len(str2) - 1
    THEN match
    ELSE LET substr2 == substring2(str2, j)
             count == IF substr2 \in DOMAIN map THEN map[substr2] ELSE 0
         IN  IF count > 0
               THEN matchLoop(str2, j + 1, [map EXCEPT ![substr2] = count - 1], match + 1)
               ELSE matchLoop(str2, j + 1, map, match)

\* stringSimilarity(str1, str2) with substringLength = 2, caseSensitive = false;
\* the quotient is kept as the pair << numerator, denominator >>
stringSimilarity(s1, s2) ==
  LET str1 == toLowerCase(s1)
      str2 == toLowerCase(s2)
  IN  IF Len(str1) < 2 \/ Len(str2) < 2
        THEN << 0, 1 >>
        ELSE << matchLoop(str2, 1, bigramMap(str1), 0) * 2, Len(str1) + Len(str2) - 2 >>

\* matchAmount <= 0.5
belowThresholdOrEqual(matchAmount) == matchAmount[1] * SimDen <= SimNum * matchAmount[2]

\* matchAmount < 0.5
belowThreshold(matchAmount) == matchAmount[1] * SimDen < SimNum * matchAmount[2]

\* lyricText of the cross-validation: every line's words followed by a newline
RECURSIVE lyricText(_)
lyricText(lyrics) ==
  IF lyrics = << >> THEN << >>
  ELSE Head(lyrics).words \o << "\n" >> \o lyricText(Tail(lyrics))

\* lyricsText.split("\n")
RECURSIVE splitLines(_, _)
splitLines(text, cur) ==
  IF text = << >> THEN << cur >>
  ELSE IF Head(text) = "\n" THEN << cur >> \o splitLines(Tail(text), << >>)
  ELSE splitLines(Tail(text), Append(cur, Head(text)))

parsePlainLyrics(lyricsText) ==
  LET ws == splitLines(lyricsText, << >>)
  IN  [ i \in 1..Len(ws) |-> Line(0, ws[i]) ]

(* ---------------------------------------------------------------------- *)
(* Provider adapters.  An adapter takes the source map and the outcome o   *)
(* of its exchange with the server and yields the source map it leaves     *)
(* behind and whether it returned normally or raised.                      *)
(* ---------------------------------------------------------------------- *)
Fill(sm, keys) == [ k \in LyricSourceKey |-> IF k \in keys THEN [ sm[k] EXCEPT !.filled = TRUE ] ELSE sm[k] ]

FillNull(sm, keys) ==
  [ k \in LyricSourceKey |->
      IF k \in keys THEN [ filled |-> TRUE, lyricSourceResult |-> NullResult ] ELSE sm[k] ]

SetResult(sm, key, r) == [ sm EXCEPT ![key].lyricSourceResult = r ]

Returned(sm) == [ sm |-> sm, threw |-> FALSE ]
Raised(sm)   == [ sm |-> sm, threw |-> TRUE ]

BLyricsSlots == {"bLyrics-richsynced", "bLyrics-synced"}

\* o.kind = "neterr": fetch rejects (network failure, timeout, abort)
\* o.kind = "resp": a response with o.ok and a body that is "unparseable"
\*   (response.json() rejects), "invalid" (no lyrics array) or "valid"
bLyrics(sm, o) ==
  IF o.kind = "neterr" THEN Raised(sm)
  ELSE
    LET sm1 == IF ~o.ok THEN FillNull(sm, BLyricsSlots) ELSE sm
    IN  IF o.body = "unparseable" THEN Raised(sm1)
        ELSE IF o.body = "invalid"
          \* the slots are nulled, then iterating data.lyrics raises
          THEN Raised(FillNull(sm1, BLyricsSlots))
        ELSE
          LET result == Result(o.lines, "boidu.dev", FALSE, TRUE)
              rich == IF o.type = "word" THEN result ELSE NullResult
              sync == IF o.type = "line" THEN result ELSE NullResult
          IN  Returned(Fill(SetResult(SetResult(sm1, "bLyrics-richsynced", rich),
                                      "bLyrics-synced", sync), BLyricsSlots))

\* a payload of the cubey / lrclib response: p = "none" (absent), "bad"
\* (parseLRC raises on it) or "lrc" (parses to o.lines)
CubeyMeta(r, o) ==
  [ r EXCEPT !.album = o.album, !.artist = o.artist, !.song = o.song, !.duration = o.duration ]

cubey(sm, o) ==
  IF o.kind = "nojwt" THEN Returned(Fill(sm, CubeySlots))
  ELSE IF o.kind = "neterr" THEN Raised(sm)
  ELSE IF o.kind = "notok" THEN Returned(Fill(sm, CubeySlots))
  ELSE IF o.kind = "unparseable" THEN Raised(sm)
  ELSE IF o.rich.p = "bad" THEN Raised(sm)
  ELSE
    LET sm1 == SetResult(sm, "musixmatch-richsync",
                 CubeyMeta(Result(IF o.rich.p = "lrc" THEN o.rich.lines ELSE << >>,
                                  "Musixmatch", FALSE, TRUE), o))
    IN  IF o.synced.p = "bad" THEN Raised(sm1)
        ELSE
          LET sm2 == IF o.synced.p = "lrc"
                       THEN SetResult(sm1, "musixmatch-synced",
                                      Result(o.synced.lines, "Musixmatch", FALSE, FALSE))
                       ELSE sm1
          IN  IF o.lrclibSynced.p = "bad" THEN Raised(sm2)
              ELSE
                LET sm3 == IF o.lrclibSynced.p = "lrc"
                             THEN SetResult(sm2, "lrclib-synced",
                                            Result(o.lrclibSynced.lines, "LRCLib", FALSE, FALSE))
                             ELSE sm2
                    sm4 == IF o.lrclibPlain.p = "lrc"
                             THEN SetResult(sm3, "lrclib-plain",
                                            Result(parsePlainLyrics(o.lrclibPlain.text), "LRCLib", FALSE, FALSE))
                             ELSE sm3
                IN  Returned(Fill(sm4, CubeySlots))

LrclibSlots == {"lrclib-synced", "lrclib-plain"}

lyricLib(sm, o) ==
  IF o.kind = "neterr" THEN Raised(sm)
  ELSE
    LET sm1 == IF ~o.ok THEN FillNull(sm, LrclibSlots) ELSE sm
    IN  IF o.body = "unparseable" THEN Raised(sm1)
        ELSE IF o.body = "null" THEN Returned(Fill(sm1, LrclibSlots))
        ELSE IF o.synced.p = "bad" THEN Raised(sm1)
        ELSE
          LET sm2 == IF o.synced.p = "lrc"
                       THEN SetResult(sm1, "lrclib-synced", Result(o.synced.lines, "LRCLib", FALSE, FALSE))
                       ELSE sm1
              sm3 == IF o.plain.p = "lrc"
                       THEN SetResult(sm2, "lrclib-plain",
                                      Result(parsePlainLyrics(o.plain.text), "LRCLib", FALSE, FALSE))
                       ELSE sm2
          IN  Returned(Fill(sm3, LrclibSlots))

\* o: what the request sniffer knows about the video's lyrics
ytLyrics(sm, o) ==
  LET sm1 == IF o.hasLyrics
               THEN SetResult(sm, "yt-lyrics",
                      [ Result(parsePlainLyrics(o.lyrics), "yt", FALSE, FALSE) EXCEPT !.text = o.lyrics ])
               ELSE sm
  IN  Returned(Fill(sm1, {"yt-lyrics"}))

\* o.kind: "notracks" (no caption track), "nolang" (no default language),
\* "onlyauto" (only auto-generated tracks), "neterr", "malformed" (no events), "ok"
ytCaptions(sm, o) ==
  IF o.kind = "notracks" THEN Returned(sm)
  ELSE IF o.kind \in {"nolang", "onlyauto"} THEN Returned(FillNull(sm, {"yt-captions"}))
  ELSE IF o.kind \in {"neterr", "malformed"} THEN Raised(sm)
  ELSE Returned(SetResult(Fill(sm, {"yt-captions"}), "yt-captions",
                          Result(o.lines, "Youtube Captions", TRUE, FALSE)))

\* lyricSource.lyricSourceFiller(providerParameters)
lyricSourceFiller(adapter, sm, o) ==
  CASE adapter = "bLyrics"    -> bLyrics(sm, o)
    [] adapter = "cubey"      -> cubey(sm, o)
    [] adapter = "lyricLib"   -> lyricLib(sm, o)
    [] adapter = "ytCaptions" -> ytCaptions(sm, o)
    [] OTHER                  -> ytLyrics(sm, o)

(* ---------------------------------------------------------------------- *)
(* State                                                                   *)
(* ---------------------------------------------------------------------- *)
VARIABLES
  AppState,          \* the session state of index.ts
  loads,             \* the createLyrics calls made so far, in the order they started
  waiters,           \* then-callbacks registered on the pending lyricInjectionPromise
  microQ,            \* then-callbacks whose promise has settled, waiting to run
  providerPriority,  \* LyricProviders.providerPriority
  tabSelected,       \* aria-selected of the lyrics tab header
  cache,             \* transient storage: the cache keys written
  env,               \* what the player, the request sniffer and the servers can deliver
  trace,             \* the step just taken: load, operation, adapter, raised, failure
  animEngineState,   \* the scheduler state of animationEngine.ts
  dom                \* the clock, the lyrics scroll container and the loader

vars == << AppState, loads, waiters, microQ, providerPriority, tabSelected, cache, env, trace,
          animEngineState, dom >>

engineVars == << animEngineState, dom >>

NoData == [ isNull |-> TRUE, lines |-> << >>, syncType |-> "none", loaderVisible |-> FALSE,
            isMusicVideoSynced |-> FALSE, load |-> 0 ]

NoSegmentMap == [ isNull |-> TRUE, segment |-> << >> ]

NoMatch == [ found |-> FALSE, counterpartVideoId |-> "", segmentMap |-> NoSegmentMap ]

\* server outcomes share one record shape
Payload(p, lines, text) == [ p |-> p, lines |-> lines, text |-> text ]
NoPayload == Payload("none", << >>, << >>)

Outcome(kind) ==
  [ kind |-> kind, ok |-> TRUE, body |-> "valid", type |-> "none", lines |-> << >>,
    rich |-> NoPayload, synced |-> NoPayload, lrclibSynced |-> NoPayload, lrclibPlain |-> NoPayload,
    plain |-> NoPayload, song |-> "", artist |-> "", album |-> "", duration |-> 0,
    hasLyrics |-> FALSE, lyrics |-> << >> ]

\* outcomes that are a network failure, a timeout or a malformed payload
IsFailure(adapter, o) ==
  CASE adapter = "bLyrics"    -> o.kind = "neterr" \/ ~o.ok \/ o.body # "valid"
    [] adapter = "cubey"      -> o.kind \in {"neterr", "notok", "unparseable"}
                                 \/ (o.kind = "ok" /\ "bad" \in {o.rich.p, o.synced.p, o.lrclibSynced.p})
    [] adapter = "lyricLib"   -> o.kind = "neterr" \/ ~o.ok \/ o.body = "unparseable"
                                 \/ (o.body = "valid" /\ o.synced.p = "bad")
    [] adapter = "ytCaptions" -> o.kind \in {"neterr", "malformed"}
    [] OTHER                  -> FALSE

Step(l, op, adapter, threw, failure) ==
  [ load |-> l, op |-> op, adapter |-> adapter, threw |-> threw, failure |-> failure ]

requested == Len(loads) + Len(waiters) + Len(microQ)

NewLoad(detail) ==
  [ detail |-> detail, aborted |-> FALSE, abortedInFlight |-> FALSE,
    pc |-> IF detail.videoId = "" THEN "done" ELSE "match1",
    videoId |-> detail.videoId, swappedVideoId |-> FALSE, segmentMap |-> NoSegmentMap,
    providerParameters |-> [ song |-> "", artist |-> "", album |-> "", duration |-> 0,
                             videoId |-> "", alwaysFetchMetadata |-> FALSE ],
    sourceMap |-> newSourceMap,
    ytLyricsPromise |-> "none", ytLyrics |-> NullResult, cubyLyrics |-> NullResult,
    prio |-> << >>, i |-> 0, sourceLyrics |-> NullResult,
    lyrics |-> NullResult, chosen |-> FALSE, committed |-> FALSE,
    calls |-> << >>, fetched |-> << >> ]

(* ---------------------------------------------------------------------- *)
(* The animation engine                                                    *)
(* ---------------------------------------------------------------------- *)
\* animEngineState as the module creates it
initialAnimEngineState ==
  [ skipScrolls |-> 0, skipScrollsDecayTimes |-> << >>, scrollResumeTime |-> 0, scrollPos |-> 0,
    selectedElementIndex |-> 0, nextScrollAllowedTime |-> 0, wasUserScrolling |-> FALSE,
    lastTime |-> 0, lastPlayState |-> FALSE, lastEventCreationTime |-> 0,
    lastFirstActiveElement |-> -1, doneFirstInstantScroll |-> TRUE ]

\* the page before any lyrics are shown: Date.now() in ms, the scroll container,
\* its pending scroll event and what caused it, the loader, the resume button,
\* the height of the container, the layout of the lines, the durations of the style sheet
initialDom ==
  [ now |-> 1000, scrollTop |-> 0, scrollPending |-> FALSE, byUser |-> FALSE, byScheduler |-> FALSE,
    loader |-> "off", resumeButtonHidden |-> TRUE, tabRendererHeight |-> 200,
    linePitch |-> 300, lineHeight |-> 40,
    timingOffset |-> 0, scrollTimingOffset |-> 0, transitionDuration |-> 400 ]

\* Number.POSITIVE_INFINITY: later than every time the model reaches
Infinity == 1000000

\* a line as injectLyrics creates it, with the bounds calculateLyricPositions measures
LineData(time, duration, position, height) ==
  [ time |-> time, duration |-> duration, position |-> position, height |-> height,
    isScrolled |-> FALSE, animationStartTimeMs |-> Infinity, isAnimationPlayStatePlaying |-> FALSE,
    accumulatedOffsetMs |-> 0, isAnimating |-> FALSE, isSelected |-> FALSE ]

\* the module state the rendering code writes: AppState, animEngineState and the page
Globals == [ animEngineState |-> animEngineState, dom |-> dom ] @@ AppState

Commit(A) ==
  /\ AppState' = [ k \in DOMAIN AppState |-> A[k] ]
  /\ animEngineState' = A.animEngineState
  /\ dom' = A.dom

\* cleanup() of dom.ts
cleanup(A) ==
  [ A EXCEPT !.animEngineState.scrollPos = -1, !.dom.resumeButtonHidden = TRUE ]

\* renderLoader(small)
renderLoader(A, small) ==
  [ (IF small THEN A ELSE cleanup(A)) EXCEPT !.dom.loader = "active" ]

\* flushLoader(): the loader animates out until its transition ends
flushLoader(A) ==
  [ A EXCEPT !.dom.loader = IF @ = "active" THEN "animatingOut" ELSE @ ]

isLoaderActive(D) == D.loader # "off"

(* ---------------------------------------------------------------------- *)
(* Rendering and remapping of the current document                         *)
(* ---------------------------------------------------------------------- *)
\* the segment scan of applySegmentMapToLyrics for one line
RECURSIVE lastTimeChange(_, _, _)
lastTimeChange(lyricTimeMs, segments, change) ==
  IF segments = << >> THEN change
  ELSE LET segment == Head(segments)
       IN  IF lyricTimeMs >= segment.counterpartVideoStartTimeMilliseconds
             THEN LET c == segment.primaryVideoStartTimeMilliseconds
                           - segment.counterpartVideoStartTimeMilliseconds
                  IN  IF lyricTimeMs <= segment.counterpartVideoStartTimeMilliseconds
                                        + segment.durationMilliseconds
                        THEN c
                        ELSE lastTimeChange(lyricTimeMs, Tail(segments), c)
             ELSE lastTimeChange(lyricTimeMs, Tail(segments), change)

\* for (let segment of segmentMap.segment) raises when the map has no segment list
applySegmentMapThrows(lyricData, segmentMap) ==
  /\ ~segmentMap.isNull /\ ~lyricData.isNull
  /\ lyricData.syncType # "none" /\ lyricData.lines # << >>
  /\ "segment" \notin DOMAIN segmentMap

\* the remapping that leaves the parts where they are
applySegmentMapToLinesOnly(lyricData, segmentMap) ==
  IF ~segmentMap.isNull /\ ~lyricData.isNull
    THEN [ lyricData EXCEPT
             !.isMusicVideoSynced = ~lyricData.isMusicVideoSynced,
             !.lines = IF lyricData.syncType = "none" \/ "segment" \notin DOMAIN segmentMap THEN @
                       ELSE [ n \in 1..Len(@) |->
                                [ @[n] EXCEPT !.time = @ + lastTimeChange(@, segmentMap.segment, 0) ] ] ]
    ELSE lyricData

\* applySegmentMapToLyrics(lyricData, segmentMap); when it raises, the document as
\* the exception leaves it
applySegmentMapToLyrics(lyricData, segmentMap) ==
  IF ~segmentMap.isNull /\ ~lyricData.isNull
    THEN [ lyricData EXCEPT
             !.isMusicVideoSynced = ~lyricData.isMusicVideoSynced,
             !.lines =
                IF lyricData.syncType = "none" THEN @
                ELSE IF "segment" \notin DOMAIN segmentMap
                  THEN [ n \in 1..Len(@) |->
                           IF n = 1 THEN [ @[n] EXCEPT !.accumulatedOffsetMs = 1000000 * 100 ]
                           ELSE @[n] ]
                ELSE [ n \in 1..Len(@) |->
                         LET change == lastTimeChange(@[n].time, segmentMap.segment, 0)
                         IN  [ @[n] EXCEPT
                                 !.accumulatedOffsetMs = 1000000 * 100,
                                 !.time = @ + change,
                                 !.parts = [ i \in 1..Len(@) |->
                                               [ @[i] EXCEPT !.time = @ + change ] ] ] ] ]
    ELSE lyricData

\* a LyricPart of a result
Part(t, d) == [ startTimeMs |-> t, durationMs |-> d ]

\* item.words.split(" ").length
wordCount(words) == 1 + Cardinality({ i \in 1..Len(words) : words[i] = " " })

\* the parts of a result line that are rendered even when the result has word timing
partsOfWordsOnly(item, animationSettings) ==
  [ index \in 1..wordCount(item.words) |->
      Part(item.startTimeMs + (index - 1) * animationSettings.lineSyncedWordDelayMs, 0) ]

\* item.parts as the loop of injectLyrics leaves it: the parts of the result, or one
\* part for every word of the line when it has none or rich synchronization is disabled
partsOf(item, animationSettings) ==
  IF "parts" \notin DOMAIN item \/ item.parts = << >>
     \/ animationSettings.disableRichSynchronization
    THEN [ index \in 1..wordCount(item.words) |->
             Part(item.startTimeMs + (index - 1) * animationSettings.lineSyncedWordDelayMs, 0) ]
    ELSE item.parts

\* PartData of a part
PartData(part) == [ time |-> part.startTimeMs, duration |-> part.durationMs ]

\* line.parts after the two calls of createLyricsLine: the parts of the line and, when
\* the romanization is injected early, the parts of the timed romanization
lineParts(item, parts, A) ==
  LET timed == IF "timedRomanization" \in DOMAIN item THEN item.timedRomanization ELSE << >>
      early == /\ "romanization" \in DOMAIN item
               /\ A.isRomanizationEnabled
               /\ item.romanization # item.words
               /\ timed # << >>
               /\ ~A.animationSettings.disableRichSynchronization
  IN  [ i \in 1..Len(parts) |-> PartData(parts[i]) ]
      \o (IF early THEN [ i \in 1..Len(timed) |-> PartData(timed[i]) ] ELSE << >>)

\* injectLyrics(data, keepLoaderVisible) run by load l: installs the document
injectLyrics(A, data, keepLoaderVisible, l) ==
  LET lyrics == data.lyrics
      allZero == \A n \in 1..Len(lyrics) : lyrics[n].startTimeMs = 0
      A1 == IF keepLoaderVisible THEN renderLoader(cleanup(A), TRUE) ELSE flushLoader(cleanup(A))
      now == A.dom.now
      parts == [ n \in 1..Len(lyrics) |-> partsOf(lyrics[n], A.animationSettings) ]
      richsync == \E n \in 1..Len(lyrics) : \E i \in 1..Len(parts[n]) : parts[n][i].durationMs # 0
  IN  [ A1 EXCEPT
          !.animEngineState = [ @ EXCEPT !.skipScrolls = 2,
                                         !.skipScrollsDecayTimes = << now + 2000, now + 2000 >>,
                                         !.scrollResumeTime = 0 ],
          !.lyricData = [ isNull |-> FALSE,
                          lines |-> [ n \in 1..Len(lyrics) |->
                                        [ words |-> lyrics[n].words,
                                          parts |-> lineParts(lyrics[n], parts[n], A) ] @@
                                        LineData(lyrics[n].startTimeMs, lyrics[n].durationMs,
                                                 IF ~allZero THEN (n - 1) * A.dom.linePitch ELSE -1,
                                                 IF ~allZero THEN A.dom.lineHeight ELSE -1) ],
                          syncType |-> IF richsync THEN "richsync"
                                       ELSE IF allZero THEN "none" ELSE "synced",
                          loaderVisible |-> keepLoaderVisible,
                          isMusicVideoSynced |-> FALSE,
                          load |-> l ],
          !.areLyricsTicking = IF allZero THEN @ ELSE TRUE,
          !.areLyricsLoaded = TRUE ]

\* processLyrics(data, keepLoaderVisible): raises on an empty document
processLyrics(A, data, keepLoaderVisible, l) ==
  IF Len(data.lyrics) = 0
    THEN [ A |-> A, threw |-> TRUE ]
    ELSE [ A |-> injectLyrics(A, data, keepLoaderVisible, l), threw |-> FALSE ]

\* the cache write of cacheAndProcessLyrics
cacheWrite(c, cacheKey, data) ==
  IF data.cacheAllowed THEN c \cup { [ key |-> cacheKey, lyrics |-> data.lyrics ] } ELSE c

\* the synthesized document, left cacheable
noLyricsFoundCacheable == Result(<< Line(0, NO_LYRICS_TEXT) >>, "Unknown", FALSE, TRUE)

\* the document synthesized when no provider result was accepted
noLyricsFound == Result(<< Line(0, NO_LYRICS_TEXT) >>, "Unknown", FALSE, FALSE)

(* ---------------------------------------------------------------------- *)
(* handleModifications and the promise chain                               *)
(* ---------------------------------------------------------------------- *)
\* the else branch: a new controller and a new createLyrics call, run up to its first await
StartLoad(detail) ==
  /\ loads' = Append(loads, NewLoad(detail))
  /\ AppState' = [ AppState EXCEPT !.lyricAbortController = Len(loads) + 1,
                                   !.lyricInjectionPromise = Len(loads) + 1 ]
  /\ trace' = Step(Len(loads) + 1, "start", "", FALSE, FALSE)

handleModifications(detail) ==
  /\ microQ = << >>
  /\ requested < MaxLoads
  /\ detail \in env.details
  /\ IF AppState.lyricInjectionPromise # 0
       THEN /\ loads' = [ loads EXCEPT
                            ![AppState.lyricAbortController].aborted = TRUE,
                            ![AppState.lyricAbortController].abortedInFlight = @ \/ loads[AppState.lyricAbortController].pc # "done" ]
            /\ IF loads[AppState.lyricInjectionPromise].pc = "done"
                 THEN microQ' = << detail >> /\ UNCHANGED waiters
                 ELSE waiters' = Append(waiters, detail) /\ UNCHANGED microQ
            /\ trace' = Step(0, "abort", "", FALSE, FALSE)
            /\ UNCHANGED AppState
       ELSE /\ StartLoad(detail)
            /\ UNCHANGED << waiters, microQ >>
  /\ env' = [ lastDetail |-> detail ] @@ env
  /\ UNCHANGED << providerPriority, tabSelected, cache >>
  /\ UNCHANGED engineVars

\* the callback of lyricInjectionPromise.then: clear the promise, call handleModifications again
RunThen ==
  /\ microQ # << >>
  /\ StartLoad(Head(microQ))
  /\ microQ' = Tail(microQ)
  /\ UNCHANGED << waiters, providerPriority, tabSelected, cache, env >>
  /\ UNCHANGED engineVars

\* the then-callbacks of a settled promise run last registered first
SettleLastFirst(l, A) ==
  IF A.lyricInjectionPromise = l
    THEN microQ' = [ i \in 1..Len(waiters) |-> waiters[Len(waiters) + 1 - i] ] /\ waiters' = << >>
    ELSE UNCHANGED << waiters, microQ >>

\* the promise of load l settles: its then-callbacks become runnable
Settle(l, A) ==
  IF A.lyricInjectionPromise = l
    THEN microQ' = waiters /\ waiters' = << >>
    ELSE UNCHANGED << waiters, microQ >>

(* ---------------------------------------------------------------------- *)
(* createLyrics, one action per continuation                               *)
(* ---------------------------------------------------------------------- *)
Running(l) == l \in 1..Len(loads) /\ microQ = << >>

getMatchingSong(videoId) ==
  IF videoId \in DOMAIN env.counterpartVideoIdMap THEN env.counterpartVideoIdMap[videoId] ELSE NoMatch

\* from the swap of the video id to the await of getSongAlbum
AfterMatch(l, A, matchingSong, segmentMap) ==
  LET rec == loads[l]
      swap == rec.detail.isMusicVideo /\ matchingSong.found
              /\ matchingSong.counterpartVideoId # "" /\ ~matchingSong.segmentMap.isNull
      rec1 == [ rec EXCEPT !.swappedVideoId = swap,
                           !.videoId = IF swap THEN matchingSong.counterpartVideoId ELSE @,
                           !.segmentMap = segmentMap ]
  IN  IF ~tabSelected
        THEN /\ Commit([ A EXCEPT !.areLyricsLoaded = FALSE, !.areLyricsTicking = FALSE,
                                 !.lyricInjectionFailed = TRUE ])
             /\ loads' = [ loads EXCEPT ![l] = [ rec1 EXCEPT !.pc = "done" ] ]
             /\ Settle(l, A)
        ELSE /\ Commit(A)
             /\ loads' = [ loads EXCEPT ![l] = [ rec1 EXCEPT !.pc = "album" ] ]
             /\ UNCHANGED << waiters, microQ >>

\* resumes after getMatchingSong(videoId, 1)
Match1(l) ==
  /\ Running(l) /\ loads[l].pc = "match1"
  /\ LET matchingSong == getMatchingSong(loads[l].videoId)
         isAVSwitch == \/ /\ matchingSong.found
                          /\ matchingSong.counterpartVideoId # ""
                          /\ matchingSong.counterpartVideoId = AppState.lastLoadedVideoId
                       \/ AppState.lastLoadedVideoId = loads[l].videoId
         segmentMap == matchingSong.segmentMap
     IN  IF isAVSwitch /\ applySegmentMapThrows(AppState.lyricData, segmentMap)
           THEN \* createLyrics rejects; the catch handler of handleModifications runs
                /\ Commit([ Globals EXCEPT
                             !.lyricData = applySegmentMapToLyrics(@, segmentMap),
                             !.areLyricsLoaded = FALSE, !.lyricInjectionFailed = TRUE ])
                /\ loads' = [ loads EXCEPT ![l].pc = "done", ![l].segmentMap = segmentMap ]
                /\ Settle(l, AppState)
         ELSE IF isAVSwitch /\ ~segmentMap.isNull
           THEN AfterMatch(l, [ Globals EXCEPT
                                  !.lyricData = applySegmentMapToLyrics(@, segmentMap),
                                  !.areLyricsTicking = TRUE ],
                           matchingSong, segmentMap)
           ELSE /\ loads' = [ loads EXCEPT ![l].pc = "match2", ![l].segmentMap = segmentMap ]
                /\ Commit(renderLoader(Globals, FALSE))
                /\ UNCHANGED << waiters, microQ >>
  /\ trace' = Step(l, "match1", "", FALSE, FALSE)
  /\ UNCHANGED << providerPriority, tabSelected, cache, env >>

\* resumes after getMatchingSong(videoId)
Match2(l) ==
  /\ Running(l) /\ loads[l].pc = "match2"
  /\ AfterMatch(l, [ Globals EXCEPT !.areLyricsLoaded = FALSE, !.areLyricsTicking = FALSE ],
                getMatchingSong(loads[l].videoId), loads[l].segmentMap)
  /\ trace' = Step(l, "match2", "", FALSE, FALSE)
  /\ UNCHANGED << providerPriority, tabSelected, cache, env >>

Call(adapter, pp, phase) == [ adapter |-> adapter, providerParameters |-> pp, phase |-> phase ]

\* resumes after getSongAlbum: builds the query, starts the yt-lyrics prefetch
\* and the query of the metadata provider
Album(l) ==
  /\ Running(l) /\ loads[l].pc = "album"
  /\ LET rec == loads[l]
         pp == [ song |-> rec.detail.song, artist |-> rec.detail.artist,
                 album |-> env.album, duration |-> rec.detail.duration,
                 videoId |-> rec.videoId, alwaysFetchMetadata |-> rec.swappedVideoId ]
     IN  IF rec.detail.song = "" \/ rec.detail.artist = ""
           THEN /\ loads' = [ loads EXCEPT ![l].pc = "done" ]
                /\ Settle(l, AppState)
           ELSE /\ loads' = [ loads EXCEPT ![l] =
                     [ rec EXCEPT !.providerParameters = pp,
                                  !.sourceMap = newSourceMap,
                                  !.ytLyricsPromise = "pending",
                                  !.calls = << Call("ytLyrics", pp, "reference"),
                                               Call("cubey", pp, "metadata") >>,
                                  !.pc = "cubey" ] ]
                /\ UNCHANGED << waiters, microQ >>
  /\ trace' = Step(l, "album", "", FALSE, FALSE)
  /\ UNCHANGED << AppState, providerPriority, tabSelected, cache, env >>
  /\ UNCHANGED engineVars

\* the outcomes a call of the adapter by load l can have: the fetch of an
\* aborted load rejects
Outcomes(l, adapter) ==
  IF loads[l].aborted /\ adapter # "ytLyrics"
    THEN { Outcome("neterr") } \cup { o \in env.net[adapter] : o.kind \in {"nojwt", "notracks", "nolang", "onlyauto"} }
    ELSE env.net[adapter]

\* { ...lyrics, song, artist, duration, videoId, album, segmentMap: null } of the prefetch
\* and { song, artist, album, duration, videoId, segmentMap, ...lyrics } of the final document
WithMeta(lyrics, pp, segmentMap, lyricsLast) ==
  LET own(f) == lyricsLast /\ lyrics[f] # NullResult[f]
  IN  [ segmentMap |-> segmentMap, videoId |-> pp.videoId ] @@
      [ lyrics EXCEPT !.song = IF own("song") THEN @ ELSE pp.song,
                      !.artist = IF own("artist") THEN @ ELSE pp.artist,
                      !.album = IF own("album") THEN @ ELSE pp.album,
                      !.duration = IF own("duration") THEN @ ELSE pp.duration ]

\* the corrections without the one of the song title
mergeMetadataWithoutSong(pp, detail, album, cubyLyrics) ==
  IF cubyLyrics.isNull THEN pp
  ELSE [ pp EXCEPT
           !.album = IF cubyLyrics.album # "" /\ album # cubyLyrics.album THEN cubyLyrics.album ELSE @,
           !.artist = IF cubyLyrics.artist # "" /\ detail.artist # cubyLyrics.artist THEN cubyLyrics.artist ELSE @,
           !.duration = IF cubyLyrics.duration # 0 /\ detail.duration # cubyLyrics.duration
                          THEN cubyLyrics.duration ELSE @ ]

\* the corrections createLyrics takes from the metadata provider's result
mergeMetadata(pp, detail, album, cubyLyrics) ==
  IF cubyLyrics.isNull THEN pp
  ELSE [ pp EXCEPT
           !.album = IF cubyLyrics.album # "" /\ album # cubyLyrics.album THEN cubyLyrics.album ELSE @,
           !.song = IF cubyLyrics.song # "" /\ detail.song # cubyLyrics.song THEN cubyLyrics.song ELSE @,
           !.artist = IF cubyLyrics.artist # "" /\ detail.artist # cubyLyrics.artist THEN cubyLyrics.artist ELSE @,
           !.duration = IF cubyLyrics.duration # 0 /\ detail.duration # cubyLyrics.duration
                          THEN cubyLyrics.duration ELSE @ ]

Fetched(provider, r, threw) == [ provider |-> provider, result |-> r, threw |-> threw ]

HasLines(r) == ~r.isNull /\ Len(r.lyrics) > 0

\* the cross-validation: the candidate is too far from the reference text
rejects(sourceLyrics, ytLyrics_) ==
  /\ ~ytLyrics_.isNull
  /\ belowThreshold(stringSimilarity(toLowerCase(lyricText(sourceLyrics.lyrics)),
                                     toLowerCase(ytLyrics_.text)))

RECURSIVE walk(_)
RECURSIVE validate(_)

\* the catch inside the priority walk: log and go on with the next provider
catchWalk(rec) == walk([ rec EXCEPT !.i = @ + 1 ])

\* from await ytLyricsPromise to the break or the continue of the walk
validate(rec) ==
  IF rec.ytLyricsPromise = "pending" THEN [ rec EXCEPT !.pc = "awaitYt" ]
  ELSE IF rec.ytLyricsPromise = "rejected" THEN catchWalk(rec)
  ELSE IF rejects(rec.sourceLyrics, rec.ytLyrics) THEN walk([ rec EXCEPT !.i = @ + 1 ])
  ELSE [ rec EXCEPT !.pc = "final" ]

\* the body of the walk once getLyrics has returned sourceLyrics
evaluate(rec, sourceLyrics) ==
  LET rec1 == [ rec EXCEPT !.fetched = Append(@, Fetched(rec.prio[rec.i], sourceLyrics, FALSE)) ]
  IN  IF HasLines(sourceLyrics)
        THEN validate([ rec1 EXCEPT !.sourceLyrics = sourceLyrics ])
        ELSE walk([ rec1 EXCEPT !.i = @ + 1 ])

\* the walk over providerPriority from the top of iteration i to its next suspension
walk(rec) ==
  IF rec.i > Len(rec.prio) THEN [ rec EXCEPT !.pc = "final", !.sourceLyrics = NullResult ]
  ELSE IF rec.aborted THEN [ rec EXCEPT !.pc = "done" ]
  ELSE IF rec.sourceMap[rec.prio[rec.i]].filled
    THEN evaluate(rec, rec.sourceMap[rec.prio[rec.i]].lyricSourceResult)
    ELSE [ rec EXCEPT !.pc = "walk",
                      !.calls = Append(@, Call(sourceKeyToFillFn[rec.prio[rec.i]],
                                               rec.providerParameters, "walk")) ]

\* from the end of the walk to the end of createLyrics
Finish(l, rec, A) ==
  LET lyrics == IF rec.sourceLyrics.isNull THEN noLyricsFound ELSE rec.sourceLyrics
      segmentMap == IF rec.detail.isMusicVideo = (lyrics.musicVideoSynced = TRUE)
                      THEN NoSegmentMap ELSE rec.segmentMap
      lyricsWithMeta == WithMeta(lyrics, rec.providerParameters, segmentMap, TRUE)
      A1 == [ A EXCEPT !.lastLoadedVideoId = rec.detail.videoId ]
      done == IF rec.aborted THEN [ A |-> A1, threw |-> FALSE ]
              ELSE processLyrics(A1, lyricsWithMeta, FALSE, l)
      \* the catch handler of handleModifications
      A2 == IF done.threw
              THEN [ done.A EXCEPT !.areLyricsLoaded = FALSE, !.lyricInjectionFailed = TRUE ]
              ELSE done.A
  IN  /\ Commit(A2)
      /\ cache' = IF rec.aborted THEN cache ELSE cacheWrite(cache, rec.videoId, lyricsWithMeta)
      /\ loads' = [ loads EXCEPT ![l] =
           [ rec EXCEPT !.pc = "done", !.lyrics = lyrics, !.chosen = TRUE,
                        !.segmentMap = segmentMap,
                        !.committed = ~rec.aborted /\ ~done.threw ] ]

\* createLyrics of load l goes on from rec up to its next suspension or its end
Resume(l, rec, A) ==
  /\ IF rec.pc = "final"
       THEN Finish(l, rec, A)
       ELSE Commit(A) /\ loads' = [ loads EXCEPT ![l] = rec ] /\ UNCHANGED cache
  /\ IF rec.pc \in {"final", "done"} /\ loads[l].pc # "done"
       THEN Settle(l, A)
       ELSE UNCHANGED << waiters, microQ >>

\* the yt-lyrics prefetch resolves: the slot is filled, the then-callback of
\* ytLyricsPromise renders the reference lyrics while nothing is loaded, and a
\* walk waiting on the promise goes on
YtResolve(l) ==
  /\ Running(l) /\ loads[l].ytLyricsPromise = "pending"
  /\ \E o \in Outcomes(l, "ytLyrics") :
       LET rec == loads[l]
           sm == ytLyrics(rec.sourceMap, o).sm
           lyrics == sm["yt-lyrics"].lyricSourceResult
           shown == ~AppState.areLyricsLoaded /\ ~lyrics.isNull
           done == IF shown
                     THEN processLyrics(Globals, WithMeta(lyrics, rec.providerParameters, NoSegmentMap, FALSE), TRUE, l)
                     ELSE [ A |-> Globals, threw |-> FALSE ]
           rec1 == [ rec EXCEPT !.sourceMap = sm,
                                !.ytLyricsPromise = IF done.threw THEN "rejected" ELSE "resolved",
                                !.ytLyrics = lyrics ]
       IN  Resume(l, IF rec.pc = "awaitYt" THEN validate(rec1) ELSE rec1, done.A)
  /\ trace' = Step(l, "ytResolve", "ytLyrics", FALSE, FALSE)
  /\ UNCHANGED << providerPriority, tabSelected, env >>

\* the catch around the query of the metadata provider: log and go on
catchMetadata(rec) == walk([ rec EXCEPT !.i = 1, !.prio = providerPriority ])

\* resumes after getLyrics(providerParameters, "musixmatch-richsync")
CubeyReturn(l) ==
  /\ Running(l) /\ loads[l].pc = "cubey"
  /\ \E o \in Outcomes(l, "cubey") :
       LET rec == loads[l]
           res == cubey(rec.sourceMap, o)
           cubyLyrics == res.sm["musixmatch-richsync"].lyricSourceResult
           rec1 == [ rec EXCEPT !.sourceMap = res.sm ]
       IN  /\ Resume(l, IF res.threw
                          THEN catchMetadata(rec1)
                          ELSE walk([ rec1 EXCEPT
                                        !.cubyLyrics = cubyLyrics,
                                        !.providerParameters = mergeMetadata(@, rec.detail, env.album, cubyLyrics),
                                        !.i = 1, !.prio = providerPriority ]),
                     Globals)
           /\ trace' = Step(l, "getLyrics", "cubey", res.threw, IsFailure("cubey", o))
  /\ UNCHANGED << providerPriority, tabSelected, env >>

\* resumes after getLyrics(providerParameters, provider) had to invoke the adapter
WalkReturn(l) ==
  /\ Running(l) /\ loads[l].pc = "walk"
  /\ LET rec == loads[l]
         provider == rec.prio[rec.i]
         adapter == sourceKeyToFillFn[provider]
     IN  \E o \in Outcomes(l, adapter) :
           LET res == lyricSourceFiller(adapter, rec.sourceMap, o)
               rec1 == [ rec EXCEPT !.sourceMap = res.sm ]
           IN  /\ Resume(l, IF res.threw
                              THEN catchWalk([ rec1 EXCEPT !.fetched = Append(@, Fetched(provider, NullResult, TRUE)) ])
                              ELSE evaluate(rec1, res.sm[provider].lyricSourceResult),
                         Globals)
               /\ trace' = Step(l, "getLyrics", adapter, res.threw, IsFailure(adapter, o))
  /\ UNCHANGED << providerPriority, tabSelected, env >>

\* the user selects another tab, or the lyrics tab again
TabClick ==
  /\ microQ = << >>
  /\ tabSelected' = ~tabSelected
  /\ trace' = Step(0, "tab", "", FALSE, FALSE)
  /\ UNCHANGED << AppState, loads, waiters, microQ, providerPriority, cache, env >>
  /\ UNCHANGED engineVars

(* ---------------------------------------------------------------------- *)
(* Environments                                                            *)
(* ---------------------------------------------------------------------- *)
TextRef   == << "a", "b", "c", "d", "e", "f", "g", "h", "i", "j", "k" >>
\* words whose lyric text has bigram similarity 0.9, 0.5 and 0.2 to TextRef
WordsB    == << "A", "B", "C", "d", "e", "f", "g", "h", "i", "j" >>
WordsHalf == << "a", "b", "c", "d", "e", "f", "x", "x", "x", "x" >>
WordsA    == << "a", "b", "x", "x", "x", "x", "x", "x", "j", "k" >>

Detail(videoId, song, isMusicVideo) ==
  [ videoId |-> videoId, song |-> song, artist |-> "artist", duration |-> 200,
    isMusicVideo |-> isMusicVideo ]

Segment(primary, counterpart, duration) ==
  [ primaryVideoStartTimeMilliseconds |-> primary,
    counterpartVideoStartTimeMilliseconds |-> counterpart,
    durationMilliseconds |-> duration ]

\* X is the audio track, Y its music video, with a segment map in both directions
LinkedXY ==
  [ v \in {"X", "Y"} |->
      [ found |-> TRUE, counterpartVideoId |-> IF v = "X" THEN "Y" ELSE "X",
        segmentMap |-> [ isNull |-> FALSE,
                         segment |-> IF v = "Y" THEN << Segment(5, 0, 100) >>
                                                ELSE << Segment(0, 5, 100) >> ] ] ]

Unlinked == [ v \in {"X", "Y"} |-> NoMatch ]

CubeyOk(rich, synced, lrclibSynced, lrclibPlain, song) ==
  [ Outcome("ok") EXCEPT !.rich = rich, !.synced = synced, !.lrclibSynced = lrclibSynced,
                         !.lrclibPlain = lrclibPlain, !.song = song, !.artist = "artist",
                         !.album = "album", !.duration = 201 ]

Lrc(lines) == Payload("lrc", lines, << >>)
Bad == Payload("bad", << >>, << >>)

YtHas(text) == [ Outcome("yt") EXCEPT !.hasLyrics = TRUE, !.lyrics = text ]
YtNone == Outcome("yt")

\* the session environment: two songs, a short priority list, reliable servers
SessionEnv(map) ==
  [ details |-> { Detail("X", "song", FALSE), Detail("Y", "song", TRUE) },
    counterpartVideoIdMap |-> map,
    album |-> "",
    net |-> [ bLyrics |-> { Outcome("neterr") },
              cubey |-> { CubeyOk(Lrc(<< Line(10, WordsB) >>), NoPayload, NoPayload, NoPayload, "song") },
              lyricLib |-> { Outcome("neterr") },
              ytCaptions |-> { Outcome("notracks") },
              ytLyrics |-> { YtHas(TextRef) } ] ]

\* AppState as index.ts creates it
initialAppState ==
  [ areLyricsTicking |-> FALSE, lyricData |-> NoData, areLyricsLoaded |-> FALSE,
    lyricInjectionFailed |-> FALSE, lyricInjectionPromise |-> 0,
    lastLoadedVideoId |-> "", lyricAbortController |-> 0,
    animationSettings |-> [ disableRichSynchronization |-> FALSE,
                            lineSyncedWordDelayMs |-> DEFAULT_LINE_SYNCED_WORD_DELAY_MS ],
    isRomanizationEnabled |-> FALSE,
    suppressZeroTime |-> 0, lastVideoId |-> "", lastVideoDetails |-> << >>,
    queueLyricInjection |-> FALSE ]

InitState ==
  /\ AppState = initialAppState
  /\ loads = << >>
  /\ waiters = << >>
  /\ microQ = << >>
  /\ tabSelected = TRUE
  /\ cache = {}
  /\ trace = Step(0, "init", "", FALSE, FALSE)
  /\ animEngineState = initialAnimEngineState
  /\ dom = initialDom

Init ==
  /\ InitState
  /\ providerPriority = << "musixmatch-richsync", "yt-lyrics" >>
  /\ env = SessionEnv(LinkedXY)

Next ==
  \/ \E detail \in env.details : handleModifications(detail)
  \/ RunThen
  \/ \E l \in 1..Len(loads) :
       \/ Match1(l)
       \/ Match2(l)
       \/ Album(l)
       \/ YtResolve(l)
       \/ CubeyReturn(l)
       \/ WalkReturn(l)

Spec == Init /\ [][Next]_vars

(* ---------------------------------------------------------------------- *)
(* One query: a single load against servers that can answer in every way   *)
(* ---------------------------------------------------------------------- *)
BResp(ok, body, type, lines) ==
  [ Outcome("resp") EXCEPT !.ok = ok, !.body = body, !.type = type, !.lines = lines ]

LResp(ok, body, synced, plain) ==
  [ Outcome("resp") EXCEPT !.ok = ok, !.body = body, !.synced = synced, !.plain = plain ]

Captions(lines) == [ Outcome("ok") EXCEPT !.lines = lines ]

QueryEnv(map) ==
  [ details |-> { Detail("X", "song", FALSE), Detail("Y", "song", TRUE) },
    counterpartVideoIdMap |-> map,
    album |-> "",
    net |-> [ bLyrics |-> { Outcome("neterr"),
                            BResp(FALSE, "invalid", "none", << >>),
                            BResp(TRUE, "valid", "word", << Line(10, WordsB) >>),
                            BResp(TRUE, "valid", "line", << Line(10, WordsHalf) >>) },
              cubey |-> { Outcome("neterr"), Outcome("nojwt"), Outcome("notok"),
                          CubeyOk(Lrc(<< Line(10, WordsA) >>), Bad, NoPayload, NoPayload, "song"),
                          CubeyOk(Lrc(<< Line(10, WordsA) >>), NoPayload, NoPayload, NoPayload, "title"),
                          CubeyOk(NoPayload, Lrc(<< Line(10, WordsB) >>), NoPayload, NoPayload, "") },
              lyricLib |-> { Outcome("neterr"),
                             LResp(FALSE, "null", NoPayload, NoPayload),
                             LResp(TRUE, "valid", Bad, NoPayload),
                             LResp(TRUE, "valid", NoPayload, Payload("lrc", << >>, WordsHalf)) },
              ytCaptions |-> { Outcome("notracks"), Outcome("nolang"), Outcome("malformed"),
                               Captions(<< Line(10, WordsA) >>) },
              ytLyrics |-> { YtHas(TextRef), YtNone } ] ]

\* a priority list with the word-level Musixmatch source ahead of bLyrics
musixmatchFirst == << "musixmatch-richsync", "bLyrics-richsynced", "lrclib-plain" >>

InitQuery ==
  /\ InitState
  /\ providerPriority \in { defaultPreferredProviderList, musixmatchFirst }
  /\ env \in { QueryEnv(Unlinked), QueryEnv(LinkedXY) }

NextQuery ==
  \/ \E detail \in env.details : requested = 0 /\ handleModifications(detail)
  \/ TabClick
  \/ \E l \in 1..Len(loads) :
       \/ Match1(l)
       \/ Match2(l)
       \/ Album(l)
       \/ YtResolve(l)
       \/ CubeyReturn(l)
       \/ WalkReturn(l)

SpecQuery == InitQuery /\ [][NextQuery]_vars

(* ---------------------------------------------------------------------- *)
(* Properties                                                              *)
(* ---------------------------------------------------------------------- *)
\* load l installs a document in the step taken
Installs(l) ==
  /\ trace'.load = l
  /\ trace'.op \in {"ytResolve", "getLyrics"}
  /\ AppState'.lyricData # AppState.lyricData

\* the session state shared by all loads
Shared(A) == << A.lastLoadedVideoId, A.lyricData, A.areLyricsLoaded, A.areLyricsTicking >>

\* C1: once a later load has been requested, an earlier load installs no
\* document: only the load requested last ever commits the current document
C1_OnlyLatestCommits ==
  [][ \A l \in 1..Len(loads) : Installs(l) => requested = l ]_vars

\* C2: at most one load is active (not cancelled, not settled) at any time,
\* however many requests arrive while a load is in flight
C2_AtMostOneActive ==
  Cardinality({ l \in 1..Len(loads) : loads[l].pc # "done" /\ ~loads[l].aborted }) <= 1

\* C3: a step of a load whose abort signal has fired leaves lastLoadedVideoId,
\* lyricData, areLyricsLoaded and areLyricsTicking as they were
C3_CancelledLoadWritesNothing ==
  [][ \A l \in 1..Len(loads) :
        (trace'.load = l /\ loads[l].aborted) => Shared(AppState') = Shared(AppState) ]_vars

\* C4: when the reference resolves after the load's final document was
\* installed or after the load was cancelled, the reference's lyrics are not
\* installed as the current document
C4_ProvisionalDiscarded ==
  [][ \A l \in 1..Len(loads) :
        (trace'.load = l /\ trace'.op = "ytResolve" /\ (loads[l].committed \/ loads[l].aborted))
          => AppState'.lyricData = AppState.lyricData ]_vars

\* C5: within one query every adapter is invoked at most once
C5_AdapterOncePerQuery ==
  \A l \in 1..Len(loads) :
    \A adapter \in { sourceKeyToFillFn[k] : k \in LyricSourceKey } :
      Cardinality({ n \in 1..Len(loads[l].calls) : loads[l].calls[n].adapter = adapter }) <= 1

\* C6: when an adapter call ends in a network failure, a timeout or a
\* malformed payload, every slot of that adapter is left null and filled
C6_FailureFillsSlot ==
  [][ \A l \in 1..Len(loads) :
        (trace'.load = l /\ trace'.op = "getLyrics" /\ trace'.failure)
          => \A k \in { k \in LyricSourceKey : sourceKeyToFillFn[k] = trace'.adapter } :
               /\ loads'[l].sourceMap[k].filled
               /\ loads'[l].sourceMap[k].lyricSourceResult.isNull ]_vars

\* C7: getLyrics never raises to its caller
C7_GetLyricsNeverThrows ==
  [][ trace'.op = "getLyrics" => ~trace'.threw ]_vars

\* bigram similarity of a candidate to the reference text
Similarity(r, ref) == stringSimilarity(toLowerCase(lyricText(r.lyrics)), toLowerCase(ref.text))

\* a fetch of the walk whose result has a line and is not below 0.5 against the reference
Acceptable(e, ref) ==
  /\ ~e.threw
  /\ HasLines(e.result)
  /\ ref.isNull \/ 2 * Similarity(e.result, ref)[1] >= Similarity(e.result, ref)[2]

\* C8: the providers are fetched in priority order and the chosen result is
\* that of the first one that returns a line and, when the reference is
\* available, is not below similarity 0.5 to it
C8_ProviderSelection ==
  \A l \in 1..Len(loads) :
    loads[l].chosen =>
      LET rec == loads[l]
          f == rec.fetched
          ok == { n \in 1..Len(f) : Acceptable(f[n], rec.ytLyrics) }
      IN  /\ Len(f) <= Len(rec.prio)
          /\ \A n \in 1..Len(f) : f[n].provider = rec.prio[n]
          /\ IF ok = {}
                THEN Len(f) = Len(rec.prio) /\ rec.lyrics.source = "Unknown"
                ELSE \E n \in ok : /\ \A m \in ok : n <= m
                                   /\ Len(f) = n
                                   /\ rec.lyrics = f[n].result

\* provider A with similarity 0.2 is passed over and provider B with 0.9 is chosen
C8_Witness ==
  \E l \in 1..Len(loads) :
    /\ loads[l].chosen
    /\ \E a, b \in 1..Len(loads[l].fetched) :
         /\ a < b
         /\ HasLines(loads[l].fetched[a].result)
         /\ Similarity(loads[l].fetched[a].result, loads[l].ytLyrics) = << 4, 20 >>
         /\ Similarity(loads[l].fetched[b].result, loads[l].ytLyrics) = << 18, 20 >>
         /\ loads[l].lyrics = loads[l].fetched[b].result
         /\ Len(AppState.lyricData.lines) = 1
         /\ AppState.lyricData.lines[1].time = 10
         /\ AppState.lyricData.lines[1].words = WordsB

\* C9: when no fetch of the walk is acceptable the chosen document is the
\* single "no lyrics" line, marked non-cacheable, and it is not cached
C9_SentinelDocument ==
  \A l \in 1..Len(loads) :
    (loads[l].chosen /\ \A n \in 1..Len(loads[l].fetched) : ~Acceptable(loads[l].fetched[n], loads[l].ytLyrics))
      => /\ Len(loads[l].lyrics.lyrics) = 1
         /\ loads[l].lyrics.lyrics[1].words = NO_LYRICS_TEXT
         /\ loads[l].lyrics.cacheAllowed = FALSE
         /\ \A c \in cache : c.lyrics # loads[l].lyrics.lyrics

\* every provider failed and the sentinel is the current document
C9_Witness ==
  \E l \in 1..Len(loads) :
    /\ loads[l].committed
    /\ Len(loads[l].fetched) = Len(loads[l].prio)
    /\ \A n \in 1..Len(loads[l].fetched) : ~Acceptable(loads[l].fetched[n], loads[l].ytLyrics)
    /\ Len(AppState.lyricData.lines) = 1
    /\ AppState.lyricData.lines[1].time = 0
    /\ AppState.lyricData.lines[1].words = NO_LYRICS_TEXT
    /\ cache = {}

\* the value a later provider call has to see for one field of the query
Corrected(cubyLyrics, value, original, empty) ==
  IF ~cubyLyrics.isNull /\ value # empty /\ value # original THEN value ELSE original

\* C10: every adapter call of the priority walk sees the song, artist, album
\* and duration as corrected by the metadata provider's result
C10_CorrectionsPropagate ==
  \A l \in 1..Len(loads) :
    \A n \in 1..Len(loads[l].calls) :
      loads[l].calls[n].phase = "walk" =>
        LET seen == loads[l].calls[n].providerParameters
            cubyLyrics == loads[l].cubyLyrics
            detail == loads[l].detail
        IN  /\ seen.song = Corrected(cubyLyrics, cubyLyrics.song, detail.song, "")
            /\ seen.artist = Corrected(cubyLyrics, cubyLyrics.artist, detail.artist, "")
            /\ seen.album = Corrected(cubyLyrics, cubyLyrics.album, env.album, "")
            /\ seen.duration = Corrected(cubyLyrics, cubyLyrics.duration, detail.duration, 0)

\* a provider call of the walk made with a corrected song title, album and duration
C10_Witness ==
  \E l \in 1..Len(loads) :
    \E n \in 1..Len(loads[l].calls) :
      /\ loads[l].calls[n].phase = "walk"
      /\ loads[l].calls[n].adapter # "cubey"
      /\ loads[l].calls[n].providerParameters.song = "title"
      /\ loads[l].calls[n].providerParameters.song # loads[l].detail.song
      /\ loads[l].calls[n].providerParameters.album = "album"
      /\ loads[l].calls[n].providerParameters.duration = 201

(* ---------------------------------------------------------------------- *)
(* initProviders: the priority list taken from the stored preference       *)
(* ---------------------------------------------------------------------- *)
\* Array.prototype.includes
includes(list, x) == \E n \in 1..Len(list) : list[n] = x

\* Array.prototype.filter(isLyricSourceKey)
RECURSIVE filterLyricSourceKey(_)
filterLyricSourceKey(list) ==
  IF list = << >> THEN << >>
  ELSE IF includes(defaultPreferredProviderList, Head(list))
    THEN << Head(list) >> \o filterLyricSourceKey(Tail(list))
    ELSE filterLyricSourceKey(Tail(list))

\* the list is taken as it is stored, without the validity test
updateProvidersListUnchecked(preferredProviderList) ==
  filterLyricSourceKey(IF preferredProviderList.isNull THEN defaultPreferredProviderList
                       ELSE preferredProviderList.list)

\* updateProvidersList(preferredProviderList): the value assigned to providerPriority
updateProvidersList(preferredProviderList) ==
  LET activeProviderList == IF preferredProviderList.isNull THEN defaultPreferredProviderList
                            ELSE preferredProviderList.list
      isValid == \A n \in 1..Len(defaultPreferredProviderList) :
                   \/ includes(activeProviderList, defaultPreferredProviderList[n])
                   \/ includes(activeProviderList, "d_" \o defaultPreferredProviderList[n])
  IN  filterLyricSourceKey(IF isValid THEN activeProviderList ELSE defaultPreferredProviderList)

\* chrome.storage.sync.get({ preferredProviderList: null }, ...) calls back
StorageGet ==
  /\ trace.op = "init"
  /\ providerPriority' = updateProvidersList(env.preferredProviderList)
  /\ trace' = Step(0, "storageGet", "", FALSE, FALSE)
  /\ UNCHANGED << AppState, loads, waiters, microQ, tabSelected, cache, env >>
  /\ UNCHANGED engineVars

\* chrome.storage.onChanged fires with a new preferredProviderList
StorageChanged(newValue) ==
  /\ env' = [ env EXCEPT !.preferredProviderList = newValue ]
  /\ providerPriority' = updateProvidersList(newValue)
  /\ trace' = Step(0, "storageChanged", "", FALSE, FALSE)
  /\ UNCHANGED << AppState, loads, waiters, microQ, tabSelected, cache >>
  /\ UNCHANGED engineVars

\* stored preferences: null, or an ordering in which every provider is
\* listed, listed as disabled or dropped, possibly with an unknown entry
StoredList(list) == [ isNull |-> FALSE, list |-> list ]
NoStoredList == [ isNull |-> TRUE, list |-> << >> ]

Reverse(list) == [ n \in 1..Len(list) |-> list[Len(list) + 1 - n] ]

RECURSIVE Marked(_, _)
Marked(order, mark) ==
  IF order = << >> THEN << >>
  ELSE (CASE mark[Head(order)] = "on"  -> << Head(order) >>
          [] mark[Head(order)] = "off" -> << "d_" \o Head(order) >>
          [] OTHER                     -> << >>) \o Marked(Tail(order), mark)

\* the providers whose entry varies over the stored preferences
Varying == { "bLyrics-richsynced", "yt-captions", "lrclib-plain" }

PreferredLists ==
  { NoStoredList, StoredList(<< "custom" >> \o Reverse(defaultPreferredProviderList)) } \cup
  { StoredList(Marked(order, mark)) :
      order \in { defaultPreferredProviderList, Reverse(defaultPreferredProviderList) },
      mark \in { m \in [ LyricSourceKey -> {"on", "off", "drop"} ] :
                   \A k \in LyricSourceKey \ Varying : m[k] = "on" } }

InitProviders ==
  /\ InitState
  /\ providerPriority = << >>
  /\ env \in { [ preferredProviderList |-> list ] @@ SessionEnv(Unlinked) : list \in PreferredLists }

NextProviders ==
  \/ StorageGet
  \/ \E newValue \in PreferredLists : StorageChanged(newValue)

SpecProviders == InitProviders /\ [][NextProviders]_vars

\* the stored preference neither lists provider k nor lists it as disabled
Drops(preferredProviderList, k) ==
  /\ ~preferredProviderList.isNull
  /\ \A n \in 1..Len(preferredProviderList.list) :
       preferredProviderList.list[n] \notin { k, "d_" \o k }

\* C11: once the stored preference has been read, a preference that drops a
\* built-in provider leaves the default ordering as the priority list
C11_InvalidOrderingRejected ==
  (trace.op \in {"storageGet", "storageChanged"}
     /\ \E k \in LyricSourceKey : Drops(env.preferredProviderList, k))
    => providerPriority = defaultPreferredProviderList

\* a reversed ordering without yt-captions was stored and the default is in force
C11_Witness ==
  /\ trace.op = "storageChanged"
  /\ Drops(env.preferredProviderList, "yt-captions")
  /\ env.preferredProviderList.list[1] = "lrclib-plain"
  /\ providerPriority = defaultPreferredProviderList

(* ---------------------------------------------------------------------- *)
(* animationEngine: one tick of the scheduler                               *)
(* Times are in milliseconds; accumulatedOffsetMs is kept in hundredths of  *)
(* a millisecond.                                                           *)
(* ---------------------------------------------------------------------- *)
MIRCO_SCROLL_THRESHOLD_S == 300

Abs(x) == IF x < 0 THEN -x ELSE x
Min(a, b) == IF a < b THEN a ELSE b
Max(a, b) == IF a > b THEN a ELSE b

nextTime(lines, n) == IF n < Len(lines) THEN lines[n + 1].time ELSE Infinity

\* the window test on lyricScrollTime for line n
isActive(lines, n, lyricScrollTime) ==
  /\ lyricScrollTime >= lines[n].time
  /\ \/ lyricScrollTime < nextTime(lines, n)
     \/ lyricScrollTime < lines[n].time + lines[n].duration

significantTimeRemainingInLyric(lines, n, lyricScrollTime) ==
  \/ lyricScrollTime < nextTime(lines, n) - MIRCO_SCROLL_THRESHOLD_S
  \/ lyricScrollTime < lines[n].time + lines[n].duration - MIRCO_SCROLL_THRESHOLD_S

\* firstActiveElem after the loop: the first active line with significant time left
\* or remembered as lastFirstActiveElement; 0 stands for null
firstActiveElem(lines, lyricScrollTime, lastFirstActiveElement) ==
  LET taken == { n \in 1..Len(lines) :
                   /\ isActive(lines, n, lyricScrollTime)
                   /\ \/ significantTimeRemainingInLyric(lines, n, lyricScrollTime)
                      \/ lastFirstActiveElement = n - 1 }
  IN  IF taken = {} THEN 0 ELSE CHOOSE n \in taken : \A m \in taken : n <= m

\* the last active line of the loop; 0 when no line is active
lastActive(lines, lyricScrollTime) ==
  LET active == { n \in 1..Len(lines) : isActive(lines, n, lyricScrollTime) }
  IN  IF active = {} THEN 0 ELSE CHOOSE n \in active : \A m \in active : n >= m

\* the filter without its decay
div108None(x) == x

\* x / 1.08, rounded toward zero
div108(x) == IF x < 0 THEN -((-x * 25) \div 27) ELSE (x * 25) \div 27

\* the test that sets a line up for animation
inAnimationWindow(lines, n, currentTime, isPlaying) ==
  LET setUpAnimationEarlyTime == IF isPlaying THEN 2000 ELSE 0
  IN  /\ currentTime + setUpAnimationEarlyTime >= lines[n].time
      /\ \/ currentTime < nextTime(lines, n)
         \/ currentTime < lines[n].time + lines[n].duration + 50

\* accumulatedOffsetMs after the filter update
filteredOffset(lineData, currentTime, now) ==
  LET timeDelta == currentTime - lineData.time
      animationTimingOffset == (now - lineData.animationStartTimeMs) - timeDelta
  IN  div108(lineData.accumulatedOffsetMs) + animationTimingOffset * 40

\* the sync test with twice the tolerance
syncIsOffLate(lineData, accumulatedOffsetMs, isPlaying) ==
  lineData.isAnimating /\ Abs(accumulatedOffsetMs) > 200 * 100 /\ isPlaying

\* "Our sync is off for some reason"
syncIsOff(lineData, accumulatedOffsetMs, isPlaying) ==
  lineData.isAnimating /\ Abs(accumulatedOffsetMs) > 100 * 100 /\ isPlaying

\* the animation half of the loop body for line n
animateLine(lines, n, currentTime, isPlaying, now) ==
  LET lineData == lines[n]
      accumulatedOffsetMs == filteredOffset(lineData, currentTime, now)
      isAnimating == lineData.isAnimating /\ ~syncIsOff(lineData, accumulatedOffsetMs, isPlaying)
      started == IF isAnimating
                   THEN [ lineData EXCEPT !.isSelected = TRUE,
                                          !.accumulatedOffsetMs = accumulatedOffsetMs ]
                   ELSE [ lineData EXCEPT !.isSelected = TRUE,
                                          !.animationStartTimeMs = now - (currentTime - lineData.time),
                                          !.isAnimating = TRUE,
                                          !.accumulatedOffsetMs = 0 ]
  IN  IF inAnimationWindow(lines, n, currentTime, isPlaying)
        THEN IF isPlaying # started.isAnimationPlayStatePlaying
               THEN [ started EXCEPT !.isAnimationPlayStatePlaying = isPlaying,
                                     !.isSelected = IF isPlaying THEN @ ELSE FALSE ]
               ELSE started
        ELSE IF lineData.isSelected
               THEN [ lineData EXCEPT !.animationStartTimeMs = Infinity,
                                      !.isSelected = FALSE, !.isAnimating = FALSE ]
               ELSE lineData

\* the target without its floor at zero
scrollPosOfUnfloored(selectedLyric, firstActive, tabRendererHeight) ==
  LET scrollPosOffset == (tabRendererHeight * 37) \div 100 - selectedLyric.height \div 2
      base == selectedLyric.position - scrollPosOffset
      keepFirst == Min(base, firstActive.position)
      keepBottom == Max(keepFirst, selectedLyric.position - tabRendererHeight + selectedLyric.height)
  IN  Min(keepBottom, selectedLyric.position)

\* the clamps of the scroll target
scrollPosOf(selectedLyric, firstActive, tabRendererHeight) ==
  LET scrollPosOffset == (tabRendererHeight * 37) \div 100 - selectedLyric.height \div 2
      base == selectedLyric.position - scrollPosOffset
      keepFirst == Min(base, firstActive.position)
      keepBottom == Max(keepFirst, selectedLyric.position - tabRendererHeight + selectedLyric.height)
      keepTop == Min(keepBottom, selectedLyric.position)
  IN  Max(0, keepTop)

\* the number of leading decay times that have passed
RECURSIVE expired(_, _)
expired(skipScrollsDecayTimes, now) ==
  IF skipScrollsDecayTimes = << >> \/ Head(skipScrollsDecayTimes) > now THEN 0
  ELSE 1 + expired(Tail(skipScrollsDecayTimes), now)

\* autoscroll only after the cleanup of the document
isTrackingAfterCleanup(E, now) == E.scrollPos = -1

\* the test that lets a tick scroll: the cooldown is over, or the document is new
isTracking(E, now) == E.scrollResumeTime < now \/ E.scrollPos = -1

\* what a tick reports of itself: how far it got, the lines it took, the target it computed,
\* the filtered offsets of the lines it animates, the lines whose sync it found off, whether
\* it took the scheduler out of a suspension, and the target of the last scroll before it
Report(reached, currentTime, isPlaying) ==
  [ reached |-> reached, currentTime |-> currentTime, isPlaying |-> isPlaying,
    firstActiveElem |-> 0, selectedLyric |-> 0, scrollPos |-> -1, wrote |-> FALSE,
    filtered |-> << >>, resynced |-> {}, resumed |-> FALSE, lastScrollPos |-> -1 ]

\* animationEngine(currentTime, eventCreationTime, isPlaying, smoothScroll)
animationEngine(A, E, D, selected, currentTime0, eventCreationTime, isPlaying, smoothScroll0) ==
  LET now == D.now
      timeOffset == IF isPlaying THEN now - eventCreationTime ELSE 0
      E1 == [ E EXCEPT !.lastTime = currentTime0, !.lastPlayState = isPlaying,
                       !.lastEventCreationTime = eventCreationTime ]
      currentTime == currentTime0 + timeOffset + D.timingOffset
      lyricScrollTime == currentTime + D.scrollTimingOffset
      lines == A.lyricData.lines
      \* the loop over the lines
      first == firstActiveElem(lines, lyricScrollTime, E.lastFirstActiveElement)
      last == lastActive(lines, lyricScrollTime)
      selectedLyric == IF last = 0 THEN 1 ELSE last
      availableScrollTime == IF last = 0 THEN 999000 ELSE nextTime(lines, last) - lyricScrollTime
      selectedElementIndex == IF last = 0 THEN E.selectedElementIndex ELSE last - 1
      lastFirst == IF first = 0 THEN E.lastFirstActiveElement ELSE first - 1
      lines1 == [ n \in 1..Len(lines) |->
                    [ animateLine(lines, n, currentTime, isPlaying, now)
                        EXCEPT !.isScrolled = isActive(lines, n, lyricScrollTime) ] ]
      E2 == [ E1 EXCEPT !.selectedElementIndex = selectedElementIndex,
                        !.lastFirstActiveElement =
                           IF lastFirst = selectedElementIndex THEN -1 ELSE lastFirst ]
      \* the scroll target
      tracking == isTracking(E, now)
      scrollPos == scrollPosOf(lines[selectedLyric],
                               lines[IF first = 0 THEN selectedLyric ELSE first],
                               D.tabRendererHeight)
      instant == D.scrollTop = 0 /\ ~E.doneFirstInstantScroll
      smoothScroll == smoothScroll0 /\ ~instant
      nextScrollAllowedTime == IF instant THEN 0 ELSE E.nextScrollAllowedTime
      scrolls == Abs(D.scrollTop - scrollPos) > 2 /\ now > nextScrollAllowedTime
      scrollTime == Max(200, Min(D.transitionDuration, availableScrollTime - 50))
      E3 == IF tracking
              THEN [ E2 EXCEPT !.wasUserScrolling = FALSE,
                               !.doneFirstInstantScroll = IF instant THEN TRUE ELSE @,
                               !.nextScrollAllowedTime =
                                  IF scrolls /\ smoothScroll THEN scrollTime + now + 20
                                  ELSE nextScrollAllowedTime,
                               !.scrollPos = IF scrolls THEN scrollPos ELSE @ ]
              ELSE [ E2 EXCEPT !.wasUserScrolling = TRUE ]
      scrollTop == IF tracking /\ scrolls THEN scrollPos ELSE D.scrollTop
      \* the write to the scroll container and the decay of the skip counter
      writes == Abs(scrollTop - D.scrollTop) > 1
      decayTimes == IF writes THEN Append(E3.skipScrollsDecayTimes, now + 2000)
                    ELSE E3.skipScrollsDecayTimes
      j == expired(decayTimes, now)
      skipScrolls == E3.skipScrolls + (IF writes THEN 1 ELSE 0) - j
      E4 == [ E3 EXCEPT !.skipScrollsDecayTimes = SubSeq(decayTimes, j + 1, Len(decayTimes)),
                        !.skipScrolls = IF skipScrolls < 1 THEN 1 ELSE skipScrolls ]
      D4 == [ D EXCEPT !.scrollTop = scrollTop,
                       !.scrollPending = @ \/ writes,
                       !.byScheduler = @ \/ writes,
                       !.resumeButtonHidden = IF tracking THEN (@ \/ E.wasUserScrolling)
                                              ELSE (@ /\ E.wasUserScrolling) ]
  IN  IF isLoaderActive(D) \/ ~A.areLyricsTicking \/ (currentTime0 = 0 /\ ~isPlaying)
        THEN [ A |-> A, E |-> E, D |-> D, report |-> Report("idle", currentTime0, isPlaying) ]
      ELSE IF ~selected
        THEN [ A |-> A, E |-> [ E1 EXCEPT !.doneFirstInstantScroll = FALSE ], D |-> D,
               report |-> Report("hidden", currentTime, isPlaying) ]
      ELSE IF A.lyricData.isNull
        THEN [ A |-> [ A EXCEPT !.areLyricsTicking = FALSE ], E |-> E1, D |-> D,
               report |-> Report("nodata", currentTime, isPlaying) ]
      ELSE [ A |-> [ A EXCEPT !.lyricData.lines = lines1 ], E |-> E4, D |-> D4,
             report |-> [ reached |-> IF tracking THEN "tracking" ELSE "suspended",
                          currentTime |-> currentTime, isPlaying |-> isPlaying,
                          firstActiveElem |-> first, selectedLyric |-> selectedLyric,
                          scrollPos |-> IF tracking THEN scrollPos ELSE -1,
                          wrote |-> writes,
                          filtered |-> [ n \in 1..Len(lines) |->
                                           IF inAnimationWindow(lines, n, currentTime, isPlaying)
                                             THEN filteredOffset(lines[n], currentTime, now)
                                             ELSE 0 ],
                          resynced |-> { n \in 1..Len(lines) :
                                           /\ inAnimationWindow(lines, n, currentTime, isPlaying)
                                           /\ syncIsOff(lines[n],
                                                        filteredOffset(lines[n], currentTime, now),
                                                        isPlaying) },
                          resumed |-> tracking /\ E.wasUserScrolling,
                          lastScrollPos |-> E.scrollPos ] ]

\* the tick listener of the player: animationEngine(detail.currentTime, detail.browserTime, detail.playing)
Tick(currentTime, browserTime, playing) ==
  LET r == animationEngine(AppState, animEngineState, dom, tabSelected,
                           currentTime, browserTime, playing, TRUE)
  IN  /\ AppState' = r.A
      /\ animEngineState' = r.E
      /\ dom' = r.D
      /\ trace' = Step(0, "tick", "", FALSE, FALSE) @@ [ report |-> r.report ]
      /\ UNCHANGED << loads, waiters, microQ, providerPriority, tabSelected, cache, env >>

\* the handler, whether the lyrics are ticking or not
handlesScrollAlways(selected, A) == selected

\* the first test of scrollEventHandler
handlesScroll(selected, A) == selected /\ A.areLyricsTicking

\* the skip test, keeping the last skip in reserve
skipsScrollAboveOne(E) == E.skipScrolls > 1

\* the skip test of scrollEventHandler
skipsScroll(E) == E.skipScrolls > 0

\* scrollEventHandler, run for the scroll event the container has pending
ScrollEvent ==
  /\ dom.scrollPending
  /\ dom' = [ dom EXCEPT !.scrollPending = FALSE, !.byUser = FALSE, !.byScheduler = FALSE ]
  /\ animEngineState' =
       IF ~handlesScroll(tabSelected, AppState) THEN animEngineState
       ELSE IF skipsScroll(animEngineState)
         THEN [ animEngineState EXCEPT
                  !.skipScrolls = @ - 1,
                  !.skipScrollsDecayTimes = IF @ = << >> THEN @ ELSE Tail(@) ]
       ELSE IF ~isLoaderActive(dom)
         THEN [ animEngineState EXCEPT !.scrollResumeTime = dom.now + 25000 ]
       ELSE animEngineState
  /\ trace' = Step(0, "scroll", "", FALSE, FALSE)
                 @@ [ byUser |-> dom.byUser, byScheduler |-> dom.byScheduler ]
  /\ UNCHANGED << AppState, loads, waiters, microQ, providerPriority, tabSelected, cache, env >>

\* time passes
Advance(now) ==
  /\ now > dom.now
  /\ dom' = [ dom EXCEPT !.now = now ]
  /\ trace' = Step(0, "advance", "", FALSE, FALSE)
  /\ UNCHANGED << AppState, loads, waiters, microQ, providerPriority, tabSelected, cache, env,
                  animEngineState >>

\* the user scrolls the lyrics container; the browser fires one scroll event for
\* the container at its next rendering step, whatever scrolled it since the last
UserScroll(top) ==
  /\ top # dom.scrollTop
  /\ dom' = [ dom EXCEPT !.scrollTop = top, !.scrollPending = TRUE, !.byUser = TRUE ]
  /\ trace' = Step(0, "userScroll", "", FALSE, FALSE)
  /\ UNCHANGED << AppState, loads, waiters, microQ, providerPriority, tabSelected, cache, env,
                  animEngineState >>

\* the click listener of the resume button
ResumeClick ==
  /\ animEngineState' = [ animEngineState EXCEPT !.scrollResumeTime = 0 ]
  /\ dom' = [ dom EXCEPT !.resumeButtonHidden = TRUE ]
  /\ trace' = Step(0, "resumeClick", "", FALSE, FALSE)
  /\ UNCHANGED << AppState, loads, waiters, microQ, providerPriority, tabSelected, cache, env >>

\* the click listener of a synced lyric line
LineClick ==
  /\ ~AppState.lyricData.isNull /\ AppState.lyricData.syncType # "none"
  /\ animEngineState' = [ animEngineState EXCEPT !.scrollResumeTime = 0 ]
  /\ trace' = Step(0, "lineClick", "", FALSE, FALSE)
  /\ UNCHANGED << AppState, loads, waiters, microQ, providerPriority, tabSelected, cache, env, dom >>

\* the transitionend listener of flushLoader
TransitionEnd ==
  /\ dom.loader = "animatingOut"
  /\ dom' = [ dom EXCEPT !.loader = "off" ]
  /\ trace' = Step(0, "transitionEnd", "", FALSE, FALSE)
  /\ UNCHANGED << AppState, loads, waiters, microQ, providerPriority, tabSelected, cache, env,
                  animEngineState >>

\* a load of another song begins: createLyrics renders the loader and stops the ticking
LoadBegins ==
  /\ AppState.areLyricsTicking
  /\ Commit([ renderLoader(Globals, FALSE) EXCEPT !.areLyricsLoaded = FALSE,
                                                  !.areLyricsTicking = FALSE ])
  /\ trace' = Step(0, "loadBegins", "", FALSE, FALSE)
  /\ UNCHANGED << loads, waiters, microQ, providerPriority, tabSelected, cache, env >>

\* a synced document of three lines; the first line runs on under the other two
EngineLyrics ==
  Result(<< [ Line(1000, << "a" >>) EXCEPT !.durationMs = 4000 ],
            [ Line(2000, << "b" >>) EXCEPT !.durationMs = 500 ],
            [ Line(3000, << "c" >>) EXCEPT !.durationMs = 1000 ] >>, "LRCLib", FALSE, TRUE)

\* the load ends: processLyrics installs the document
LoadEnds ==
  /\ ~AppState.areLyricsTicking
  /\ Commit(injectLyrics(Globals, EngineLyrics, FALSE, 0))
  /\ trace' = Step(0, "loadEnds", "", FALSE, FALSE)
  /\ UNCHANGED << loads, waiters, microQ, providerPriority, tabSelected, cache, env >>

\* what the player reports and how late the report arrives
PlayerTimes == { 500, 2200, 4000, 4800 }
PlayerTimesScroll == { 2200, 4000 }
\* the times at which something happens
Times == { 1000, 2500, 3500, 27000 }
ScrollTops == { 0, 50 }

InitEngine ==
  /\ LET A == injectLyrics([ animEngineState |-> initialAnimEngineState, dom |-> initialDom ]
                             @@ initialAppState,
                           EngineLyrics, FALSE, 0)
     IN  /\ AppState = [ k \in DOMAIN initialAppState |-> A[k] ]
         /\ animEngineState = A.animEngineState
         /\ dom = A.dom
  /\ loads = << >>
  /\ waiters = << >>
  /\ microQ = << >>
  /\ tabSelected = TRUE
  /\ cache = {}
  /\ providerPriority = defaultPreferredProviderList
  /\ env = SessionEnv(Unlinked)
  /\ trace = Step(0, "init", "", FALSE, FALSE)

\* the scroll handling: the container fires the scroll event of a write of the
\* scheduler before the player ticks again
NextScroll ==
  \/ /\ ~dom.byScheduler
     /\ \E currentTime \in PlayerTimesScroll : Tick(currentTime, dom.now, TRUE)
  \/ ScrollEvent
  \/ \E top \in ScrollTops : UserScroll(top)
  \/ \E now \in Times : Advance(now)
  \/ ResumeClick
  \/ LineClick
  \/ TransitionEnd
  \/ LoadBegins
  \/ LoadEnds

SpecScroll == InitEngine /\ [][NextScroll]_vars

(* ---------------------------------------------------------------------- *)
(* A player whose clock is off by a constant error on every tick           *)
(* ---------------------------------------------------------------------- *)
MaxTicks == 50

\* the errors of the player, in ms
DriftErrors == { -150, -50, -20, 0, 20, 50, 150 }

InitDrift ==
  /\ LET A == injectLyrics([ animEngineState |-> initialAnimEngineState, dom |-> initialDom ]
                             @@ initialAppState,
                           EngineLyrics, FALSE, 0)
     IN  /\ AppState = [ k \in DOMAIN initialAppState |-> A[k] ]
         /\ animEngineState = A.animEngineState
         /\ dom = A.dom
  /\ loads = << >>
  /\ waiters = << >>
  /\ microQ = << >>
  /\ tabSelected = TRUE
  /\ cache = {}
  /\ providerPriority = defaultPreferredProviderList
  /\ env \in { [ drift |-> e, playing |-> b, period |-> 50 ] @@ SessionEnv(Unlinked) :
                 e \in DriftErrors, b \in BOOLEAN }
  /\ trace = Step(0, "init", "", FALSE, FALSE)

\* the time the player reports: the last line is animationTimingOffset = env.drift
\* away from where its animation stands
driftTime ==
  LET lineData == AppState.lyricData.lines[Len(AppState.lyricData.lines)]
  IN  IF lineData.animationStartTimeMs = Infinity THEN lineData.time + 200
      ELSE lineData.time + (dom.now - lineData.animationStartTimeMs) - env.drift

NextDrift ==
  \/ /\ trace.op # "advance"
     /\ dom.now + env.period <= initialDom.now + MaxTicks * env.period
     /\ Advance(dom.now + env.period)
  \/ /\ trace.op = "advance"
     /\ Tick(driftTime, dom.now, env.playing)
  \/ /\ trace.op = "advance"
     /\ ScrollEvent

SpecDrift == InitDrift /\ [][NextDrift]_vars

\* C12: after a tick while playing, every line the tick animated whose filtered
\* offset is more than 100 ms in size has been re-anchored by that tick: its
\* animation starts where the player stands and its offset is back at zero
C12_ReanchorAboveThreshold ==
  (trace.op = "tick" /\ trace.report.reached \in {"tracking", "suspended"} /\ trace.report.isPlaying)
    => \A n \in 1..Len(AppState.lyricData.lines) :
         LET lineData == AppState.lyricData.lines[n]
         IN  (inAnimationWindow(AppState.lyricData.lines, n, trace.report.currentTime, TRUE)
                /\ Abs(trace.report.filtered[n]) > 100 * 100)
             => /\ lineData.isAnimating
                /\ lineData.accumulatedOffsetMs = 0
                /\ lineData.animationStartTimeMs
                     = dom.now - (trace.report.currentTime - lineData.time)

\* a line that was animating is found more than 100 ms off and is re-anchored
C12_Witness ==
  /\ trace.op = "tick" /\ trace.report.isPlaying
  /\ 3 \in trace.report.resynced
  /\ Abs(trace.report.filtered[3]) > 100 * 100
  /\ AppState.lyricData.lines[3].accumulatedOffsetMs = 0

\* C13: with the player 50 ms off on every tick while playing, the filtered
\* offset of an animating line stays within 100 / 1.08 + 0.4 * 50 = 112.6 ms,
\* the offset the tick leaves stays within 100 ms, and a filtered offset above
\* 100 ms re-anchors the line in that tick
C13_ConstantErrorBounded ==
  [][ (env.playing /\ env.drift = 50 /\ trace'.op = "tick")
        => \A n \in 1..Len(AppState.lyricData.lines) :
             (AppState.lyricData.lines[n].isAnimating
                /\ inAnimationWindow(AppState.lyricData.lines, n, trace'.report.currentTime, TRUE))
             => /\ Abs(trace'.report.filtered[n]) <= 11260
                /\ Abs(AppState'.lyricData.lines[n].accumulatedOffsetMs) <= 100 * 100
                /\ Abs(trace'.report.filtered[n]) > 100 * 100
                     => /\ n \in trace'.report.resynced
                        /\ AppState'.lyricData.lines[n].accumulatedOffsetMs = 0 ]_vars

\* late in the 50 ticks the offset has again passed 100 ms and the line is re-anchored
C13_Witness ==
  /\ env.playing /\ env.drift = 50
  /\ trace.op = "tick"
  /\ dom.now >= initialDom.now + 40 * env.period
  /\ 3 \in trace.report.resynced
  /\ trace.report.filtered[3] > 100 * 100
  /\ AppState.lyricData.lines[3].accumulatedOffsetMs = 0

\* C14: a scroll event that no write of the scheduler has part in, handled
\* while the lyrics are ticking, sets the resume time 25 s ahead
C14_UserScrollSuspends ==
  [][ (trace'.op = "scroll" /\ trace'.byUser /\ ~trace'.byScheduler /\ AppState.areLyricsTicking)
        => animEngineState'.scrollResumeTime = dom.now + 25000 ]_vars

C16_SuspendedResumes ==
  [][ /\ ( /\ trace'.op = "tick"
           /\ trace'.report.reached \in { "tracking", "suspended" }
           /\ animEngineState.scrollResumeTime < dom.now )
        => /\ trace'.report.reached = "tracking"
           /\ ~animEngineState'.wasUserScrolling
           /\ dom'.resumeButtonHidden
           /\ ( /\ Abs(dom.scrollTop - trace'.report.scrollPos) > 2
                /\ dom.now > animEngineState.nextScrollAllowedTime )
                => dom'.scrollTop = trace'.report.scrollPos
      /\ trace'.op \in { "resumeClick", "lineClick" }
        => animEngineState'.scrollResumeTime < dom'.now ]_vars

\* a user scroll suspended the scheduler, a tick found it suspended, the deadline
\* passed, and this tick scrolled the container again
C16_Witness ==
  /\ trace.op = "tick" /\ trace.report.reached = "tracking"
  /\ trace.report.resumed /\ trace.report.lastScrollPos # -1
  /\ animEngineState.scrollResumeTime > 0
  /\ animEngineState.scrollResumeTime < dom.now
  /\ trace.report.wrote /\ dom.scrollTop = trace.report.scrollPos

\* C17: while areLyricsTicking is false the scheduler is idle: a tick selects no line,
\* starts no animation, performs no scroll and changes no scheduler state, and a
\* scroll event does not suspend autoscroll (nor change any other scheduler state).
C17_IdleWhileNotTicking ==
  [][ ( ~AppState.areLyricsTicking /\ trace'.op \in { "tick", "scroll" } )
        => /\ AppState' = AppState
           /\ animEngineState' = animEngineState
           /\ dom'.scrollTop = dom.scrollTop
           /\ trace'.op = "tick"
                => /\ trace'.report.reached = "idle"
                   /\ trace'.report.selectedLyric = 0
                   /\ ~trace'.report.wrote
                   /\ dom' = dom ]_vars

\* the ticking flag is cleared, the user has scrolled the container, and the scroll
\* event was handled without a cooldown, although the skip counter was at zero
C17_Witness ==
  /\ ~AppState.areLyricsTicking
  /\ trace.op = "scroll" /\ trace.byUser
  /\ animEngineState.skipScrolls = 0
  /\ animEngineState.scrollResumeTime = 0
  /\ dom.scrollTop = 50

(* ---------------------------------------------------------------------- *)
(* Line selection and the scroll target                                    *)
(* ---------------------------------------------------------------------- *)
\* the heights the viewport of the lyrics tab can have
Heights == { 200, 800 }

\* the viewport is resized; a tick measures it anew
Resize(h) ==
  /\ h # dom.tabRendererHeight
  /\ dom' = [ dom EXCEPT !.tabRendererHeight = h ]
  /\ trace' = Step(0, "resize", "", FALSE, FALSE)
  /\ UNCHANGED << AppState, loads, waiters, microQ, providerPriority, tabSelected, cache, env,
                  animEngineState >>

\* the player plays and seeks: it may report any of its times on a tick
NextLines ==
  \/ \E currentTime \in PlayerTimes : Tick(currentTime, dom.now, TRUE)
  \/ ScrollEvent
  \/ \E now \in Times : Advance(now)
  \/ \E h \in Heights : Resize(h)

SpecLines == InitEngine /\ [][NextLines]_vars

\* the line a tick took as the scroll target, and the line it took as first-active
\* (the scroll target itself when the tick took none)
TargetLine == AppState.lyricData.lines[trace.report.selectedLyric]
FirstLine ==
  AppState.lyricData.lines[IF trace.report.firstActiveElem = 0 THEN trace.report.selectedLyric
                           ELSE trace.report.firstActiveElem]

C19_SliverNeedsPreviousTick ==
  [][ ( /\ trace.op = "tick" /\ trace'.op = "tick"
        /\ trace'.report.reached \in { "tracking", "suspended" }
        /\ trace'.report.firstActiveElem # 0
        /\ ~significantTimeRemainingInLyric(AppState.lyricData.lines,
                                            trace'.report.firstActiveElem,
                                            trace'.report.currentTime + dom.scrollTimingOffset) )
        => trace.report.firstActiveElem = trace'.report.firstActiveElem ]_vars

(* ---------------------------------------------------------------------- *)
(* A session whose counterpart map is sniffed while loads are under way    *)
(* ---------------------------------------------------------------------- *)
\* the listener of the request sniffer: the response of the next endpoint arrives and
\* the counterparts and segment maps of the songs of the queue become known
Sniff ==
  /\ DOMAIN env.counterpartVideoIdMap = {}
  /\ env' = [ env EXCEPT !.counterpartVideoIdMap = LinkedXY ]
  /\ trace' = Step(0, "sniff", "", FALSE, FALSE)
  /\ UNCHANGED << AppState, loads, waiters, microQ, providerPriority, tabSelected, cache,
                  animEngineState, dom >>

InitSniff ==
  /\ InitState
  /\ providerPriority = << "musixmatch-richsync", "yt-lyrics" >>
  /\ env = [ SessionEnv(LinkedXY) EXCEPT !.counterpartVideoIdMap = [ v \in {} |-> NoMatch ] ]

\* the response arrives within the five seconds for which getMatchingSong(videoId) polls
NextSniff ==
  \/ \E detail \in env.details : handleModifications(detail)
  \/ RunThen
  \/ Sniff
  \/ \E l \in 1..Len(loads) :
       \/ Match1(l)
       \/ loads[l].videoId \in DOMAIN env.counterpartVideoIdMap /\ Match2(l)
       \/ Album(l)
       \/ YtResolve(l)
       \/ CubeyReturn(l)
       \/ WalkReturn(l)

SpecSniff == InitSniff /\ [][NextSniff]_vars

\* C20: at the end of reconciliation a segment map is attached to the result exactly
\* when the media is a music video and the chosen result is not timed against the
\* video, or the media is audio and the result is timed against the video; when the
\* two kinds agree no segment map is attached.
C20_SegmentMapIffKindsDisagree ==
  \A l \in 1..Len(loads) :
    (loads[l].pc = "done" /\ loads[l].chosen)
      => ( ~loads[l].segmentMap.isNull
             <=> loads[l].detail.isMusicVideo # (loads[l].lyrics.musicVideoSynced = TRUE) )

(* ---------------------------------------------------------------------- *)
(* Remapping                                                               *)
(* ---------------------------------------------------------------------- *)
MaxRemaps == 2

\* the reversed map of the request sniffer: primary and counterpart swapped, segment
\* by segment; none when the map has no segment list
reversedSegmentMap(segmentMap) ==
  IF ~segmentMap.isNull /\ "segment" \in DOMAIN segmentMap
    THEN [ isNull |-> FALSE,
           segment |-> [ k \in 1..Len(segmentMap.segment) |->
                           Segment(segmentMap.segment[k].counterpartVideoStartTimeMilliseconds,
                                   segmentMap.segment[k].primaryVideoStartTimeMilliseconds,
                                   segmentMap.segment[k].durationMilliseconds) ] ]
    ELSE NoSegmentMap

\* the maps of a media whose counterpart has 500 ms more after the first second, has
\* 500 ms less there, or begins 500 ms later; a map without segments; no map; and a
\* map without a segment list
SegmentMaps ==
  { [ isNull |-> FALSE, segment |-> << Segment(0, 0, 1000), Segment(1500, 1000, 1000) >> ],
    [ isNull |-> FALSE, segment |-> << Segment(0, 0, 1000), Segment(1000, 1500, 1000) >> ],
    [ isNull |-> FALSE, segment |-> << Segment(500, 0, 2000) >> ],
    [ isNull |-> FALSE, segment |-> << >> ],
    NoSegmentMap,
    [ isNull |-> FALSE ] }

\* the start of the first line of the document
RemapTimes == { 200, 400, 900, 1000, 1200, 1500, 1900, 2400 }

\* a document of two lines 600 ms apart; the first has two timed words and a timed
\* romanization of one part
RemapLyrics(t) ==
  Result(<< [ parts |-> << Part(t, 100), Part(t + 150, 200) >>,
              romanization |-> << "r" >>,
              timedRomanization |-> << Part(t + 50, 300) >> ]
              @@ [ Line(t, << "a", " ", "b" >>) EXCEPT !.durationMs = 400 ],
            Line(t + 600, << "c", " ", "d" >>) >>, "bLyrics", FALSE, TRUE)

InitRemap ==
  /\ \E t \in RemapTimes, segmentMap \in SegmentMaps :
       /\ env = [ time |-> t, segmentMap |-> segmentMap,
                  reversed |-> reversedSegmentMap(segmentMap) ]
       /\ LET A == injectLyrics([ animEngineState |-> initialAnimEngineState, dom |-> initialDom ]
                                 @@ [ initialAppState EXCEPT !.isRomanizationEnabled = TRUE ],
                               RemapLyrics(t), FALSE, 0)
          IN  /\ AppState = [ k \in DOMAIN initialAppState |-> A[k] ]
              /\ animEngineState = A.animEngineState
              /\ dom = A.dom
  /\ loads = << >>
  /\ waiters = << >>
  /\ microQ = << >>
  /\ tabSelected = TRUE
  /\ cache = {}
  /\ providerPriority = defaultPreferredProviderList
  /\ trace = Step(0, "init", "", FALSE, FALSE)

\* the branch of createLyrics for a switch between audio and video: the current
\* document is remapped with the map of the media switched to
Remap(op, segmentMap) ==
  /\ trace.load < MaxRemaps
  /\ ~segmentMap.isNull
  /\ LET threw == applySegmentMapThrows(AppState.lyricData, segmentMap)
     IN  /\ AppState' = [ AppState EXCEPT
                            !.lyricData = applySegmentMapToLyrics(@, segmentMap),
                            !.areLyricsTicking = IF threw THEN @ ELSE TRUE,
                            !.areLyricsLoaded = IF threw THEN FALSE ELSE @,
                            !.lyricInjectionFailed = IF threw THEN TRUE ELSE @ ]
         /\ trace' = Step(trace.load + 1, op, "", threw, FALSE)
                        @@ [ before |-> AppState.lyricData ]
  /\ UNCHANGED << loads, waiters, microQ, providerPriority, tabSelected, cache, env,
                  animEngineState, dom >>

\* the media switches to its counterpart
AVSwitch == ~AppState.lyricData.isMusicVideoSynced /\ Remap("avSwitch", env.segmentMap)

\* the media switches back
AVSwitchBack == AppState.lyricData.isMusicVideoSynced /\ Remap("avSwitchBack", env.reversed)

NextRemap == AVSwitch \/ AVSwitchBack

SpecRemap == InitRemap /\ [][NextRemap]_vars

\* C21: remapping is a no-op when the timeline kinds agree: when a load begins for the
\* media whose load installed the current document, and that document has not been
\* remapped since, the step of the load that decides on the remapping leaves the
\* timestamps of the document as they are.
C21_SameMediaNotRemapped ==
  [][ ( /\ trace'.op = "match1"
        /\ ~AppState.lyricData.isNull
        /\ AppState.lyricData.load # 0
        /\ ~AppState.lyricData.isMusicVideoSynced
        /\ loads[AppState.lyricData.load].detail = loads[trace'.load].detail )
        => AppState'.lyricData.lines = AppState.lyricData.lines ]_vars

\* the shift of the last segment, in the order of the map, that starts at or before t
RECURSIVE LastSegmentShift(_, _, _)
LastSegmentShift(t, segments, shift) ==
  IF segments = << >> THEN shift
  ELSE LastSegmentShift(t, Tail(segments),
                        IF Head(segments).counterpartVideoStartTimeMilliseconds <= t
                          THEN Head(segments).primaryVideoStartTimeMilliseconds
                               - Head(segments).counterpartVideoStartTimeMilliseconds
                          ELSE shift)

\* the map a remapping step applied
Applied == IF trace.op = "avSwitch" THEN env.segmentMap ELSE env.reversed
Remapped == trace.op \in { "avSwitch", "avSwitchBack" } /\ ~trace.threw

\* C22: every line is shifted by primaryStart - counterpartStart of the last segment of
\* the map, in order, whose counterpartStart is not after the start of the line, and
\* by 0 when there is none.
C22_ShiftOfLastSegment ==
  Remapped =>
    \A n \in 1..Len(AppState.lyricData.lines) :
      AppState.lyricData.lines[n].time - trace.before.lines[n].time
        = LastSegmentShift(trace.before.lines[n].time, Applied.segment, 0)

\* C23: a remapping moves the start of a line, the start of every part of the line and
\* the start of every part of its timed romanization by one and the same amount, and
\* changes no duration.
C23_OneShiftPerLine ==
  Remapped =>
    /\ Len(AppState.lyricData.lines) = Len(trace.before.lines)
    /\ \A n \in 1..Len(AppState.lyricData.lines) :
         LET after == AppState.lyricData.lines[n]
             before == trace.before.lines[n]
         IN  /\ after.duration = before.duration
             /\ Len(after.parts) = Len(before.parts)
             /\ \A i \in 1..Len(after.parts) :
                  /\ after.parts[i].time - before.parts[i].time = after.time - before.time
                  /\ after.parts[i].duration = before.parts[i].duration

\* a line with two timed words and a timed romanization was moved by 500 ms
C23_Witness ==
  /\ Remapped /\ trace.op = "avSwitch"
  /\ Len(AppState.lyricData.lines[1].parts) = 3
  /\ AppState.lyricData.lines[1].time = trace.before.lines[1].time + 500
  /\ AppState.lyricData.lines[1].parts[3].time = trace.before.lines[1].parts[3].time + 500
  /\ AppState.lyricData.lines[1].parts[3].duration = 300

\* C24: invertibility. A document that was remapped with a map and then with the
\* reversed map of that map has every line within 1 ms of where it started.
C24_MapThenReverseRestores ==
  (trace.op = "avSwitchBack" /\ trace.load = 2 /\ ~trace.threw)
    => /\ Abs(AppState.lyricData.lines[1].time - env.time) <= 1
       /\ Abs(AppState.lyricData.lines[2].time - (env.time + 600)) <= 1

\* the start and the duration of every line and part of a document
Timing(lyricData) ==
  [ n \in 1..Len(lyricData.lines) |->
      [ time |-> lyricData.lines[n].time, duration |-> lyricData.lines[n].duration,
        parts |-> lyricData.lines[n].parts ] ]

\* C25: a remapping with a map that has no segments, or that is malformed in having no
\* list of segments, raises no exception and leaves the timing of the document as it was.
C25_EmptyOrMalformedMapIsNoOp ==
  ( /\ trace.op \in { "avSwitch", "avSwitchBack" }
    /\ ("segment" \notin DOMAIN Applied \/ Applied.segment = << >>) )
    => /\ ~trace.threw
       /\ Timing(AppState.lyricData) = Timing(trace.before)

\* ---------------------------------------------------------------------------------
\* The synchronization type of an injected document
\* ---------------------------------------------------------------------------------

\* start times of the lines of the documents injected
InjectStarts == { 0, 700 }

\* the parts a result line comes with: none, parts without durations, timed parts
InjectParts(t) == { << >>, << Part(t, 0), Part(t + 100, 0) >>, << Part(t, 200), Part(t + 200, 300) >> }

\* result lines: with or without a parts property, at a start time
InjectLines ==
  { Line(t, << "a", " ", "b" >>) : t \in InjectStarts }
  \cup { [ parts |-> ps ] @@ Line(t, << "a", " ", "b" >>) :
           t \in InjectStarts, ps \in UNION { InjectParts(u) : u \in InjectStarts } }

\* results of one or two lines
InjectResults ==
  { Result(<< a >>, "bLyrics", FALSE, TRUE) : a \in InjectLines }
  \cup { Result(<< a, b >>, "bLyrics", FALSE, TRUE) : a \in InjectLines, b \in InjectLines }

\* the page with the settings as read from storage and no document yet
InitInject ==
  /\ \E disable \in BOOLEAN, romanize \in BOOLEAN :
       AppState = [ initialAppState EXCEPT
                      !.animationSettings.disableRichSynchronization = disable,
                      !.isRomanizationEnabled = romanize ]
  /\ animEngineState = initialAnimEngineState
  /\ dom = initialDom
  /\ env = [ data |-> Result(<< >>, "", FALSE, TRUE) ]
  /\ loads = << >>
  /\ waiters = << >>
  /\ microQ = << >>
  /\ tabSelected = TRUE
  /\ cache = {}
  /\ providerPriority = defaultPreferredProviderList
  /\ trace = Step(0, "init", "", FALSE, FALSE)

\* injectLyrics(data, false) on a result
Inject(data) ==
  /\ Commit(injectLyrics(Globals, data, FALSE, 0))
  /\ env' = [ data |-> data ]
  /\ trace' = Step(0, "inject", "", FALSE, FALSE)
  /\ UNCHANGED << loads, waiters, microQ, providerPriority, tabSelected, cache >>

NextInject == \E data \in InjectResults : Inject(data)

SpecInject == InitInject /\ [][NextInject]_vars

\* every line of the result starts at 0
AllZero(data) == \A n \in 1..Len(data.lyrics) : data.lyrics[n].startTimeMs = 0

\* some part of some line of the result has a duration
TimedPart(data) ==
  \E n \in 1..Len(data.lyrics) :
    /\ "parts" \in DOMAIN data.lyrics[n]
    /\ \E i \in 1..Len(data.lyrics[n].parts) : data.lyrics[n].parts[i].durationMs # 0

TimeTag(m, s, x) == [ minutes |-> m, seconds |-> s, hundredths |-> x ]

\* parseTime(timeStr) for the format mm:ss.xx: milliseconds, a rounded integer
parseTime(timeStr) ==
  timeStr.minutes * 60 * 1000 + timeStr.seconds * 1000 + timeStr.hundredths * 10

\* a fragment without one leading and one trailing space
stripSpace(fragment) ==
  LET a == IF Len(fragment) > 0 /\ fragment[1] = " " THEN Tail(fragment) ELSE fragment
  IN  IF Len(a) > 0 /\ a[Len(a)] = " " THEN SubSeq(a, 1, Len(a) - 1) ELSE a

\* String.prototype.trim
RECURSIVE trim(_)
trim(text) ==
  IF text = << >> THEN text
  ELSE IF text[1] = " " THEN trim(Tail(text))
  ELSE IF text[Len(text)] = " " THEN trim(SubSeq(text, 1, Len(text) - 1))
  ELSE text

\* the loop over lyricPart.split(enhancedWordRegex): odd fragments are text, even
\* fragments are the time tags of the inline tokens
RECURSIVE splitParts(_, _, _)
splitParts(fragments, index, st) ==
  IF index > Len(fragments) THEN st
  ELSE IF index % 2 = 1
    THEN LET fragment == stripSpace(fragments[index])
             n == Len(st.parts)
         IN  splitParts(fragments, index + 1,
               [ st EXCEPT
                   !.plainText = @ \o fragment,
                   !.parts = IF n > 0 /\ st.parts[n].startTimeMs # 0
                               THEN [ @ EXCEPT ![n].words = @ \o fragment ]
                               ELSE @ ])
    ELSE LET startTime == parseTime(fragments[index])
             n == Len(st.parts)
         IN  splitParts(fragments, index + 1,
               [ st EXCEPT
                   !.parts = Append(IF ~st.lastNull /\ n > 0
                                      THEN [ @ EXCEPT ![n].durationMs = startTime - st.lastTime ]
                                      ELSE @,
                                    [ startTimeMs |-> startTime, words |-> << >>,
                                      durationMs |-> 0 ]),
                   !.lastTime = startTime,
                   !.lastNull = FALSE ])

\* Math.min(...timeTags) and Math.max(...timeTags)
RECURSIVE minOf(_)
minOf(ts) == IF Len(ts) = 1 THEN ts[1] ELSE Min(ts[1], minOf(Tail(ts)))

RECURSIVE maxOf(_)
maxOf(ts) == IF Len(ts) = 1 THEN ts[1] ELSE Max(ts[1], maxOf(Tail(ts)))

\* the entry pushed for one line of the text that has time tags
lrcEntry(line) ==
  LET timeTags == [ i \in 1..Len(line.timeTags) |-> parseTime(line.timeTags[i]) ]
      st == splitParts(line.fragments, 1,
                       [ parts |-> << >>, lastTime |-> 0, lastNull |-> TRUE,
                         plainText |-> << >> ])
      entry == [ startTimeMs |-> minOf(timeTags), words |-> trim(st.plainText),
                 durationMs |-> maxOf(timeTags) - minOf(timeTags) ]
  IN  IF st.parts # << >> THEN [ parts |-> st.parts ] @@ entry ELSE entry

\* the lines of the text that are id tags
isIdTag(line) == "idTag" \in DOMAIN line

\* result after the first loop: one entry for every line with time tags, in text order
RECURSIVE lrcEntries(_)
lrcEntries(lines) ==
  IF lines = << >> THEN << >>
  ELSE IF isIdTag(lines[1]) \/ lines[1].timeTags = << >> THEN lrcEntries(Tail(lines))
  ELSE << lrcEntry(lines[1]) >> \o lrcEntries(Tail(lines))

\* the last part of a line with its duration replaced
withLastPartDuration(lyric, d) ==
  [ lyric EXCEPT !.parts = [ @ EXCEPT ![Len(@)].durationMs = d ] ]

\* the second loop: durations from the next line, or from the song duration
lrcDurations(result, songDuration) ==
  [ index \in 1..Len(result) |->
      LET lyric == result[index]
          hasParts == "parts" \in DOMAIN lyric
      IN  IF index < Len(result)
            THEN LET nextLyric == result[index + 1]
                     a == IF lyric.durationMs = 0
                            THEN [ lyric EXCEPT !.durationMs =
                                      Max(nextLyric.startTimeMs - lyric.startTimeMs, 0) ]
                            ELSE lyric
                 IN  IF hasParts
                       THEN LET latestStart ==
                                  Max(nextLyric.startTimeMs,
                                      maxOf([ i \in 1..Len(lyric.parts) |->
                                                lyric.parts[i].startTimeMs ]))
                                lastPartInLyric == lyric.parts[Len(lyric.parts)]
                            IN  [ withLastPartDuration(a,
                                    Max(nextLyric.startTimeMs - lastPartInLyric.startTimeMs, 0))
                                  EXCEPT !.durationMs = Max(latestStart - lyric.startTimeMs, 0) ]
                       ELSE a
            ELSE LET a == IF lyric.durationMs = 0
                            THEN [ lyric EXCEPT !.durationMs = songDuration - lyric.startTimeMs ]
                            ELSE lyric
                 IN  IF hasParts
                       THEN withLastPartDuration(a,
                              songDuration - lyric.parts[Len(lyric.parts)].startTimeMs)
                       ELSE a ]

\* idTags["offset"]: the value of the last offset tag of the text, if any
RECURSIVE offsetTag(_, _)
offsetTag(lines, found) ==
  IF lines = << >> THEN found
  ELSE offsetTag(Tail(lines),
                 IF isIdTag(lines[1]) /\ lines[1].idTag = "offset"
                   THEN [ present |-> TRUE, numeric |-> lines[1].numeric,
                          value |-> lines[1].value ]
                   ELSE found)

\* the third loop: the offset tag moves every line and every part
lrcOffset(result, tag) ==
  IF ~tag.present THEN result
  ELSE LET offset == (IF tag.numeric THEN tag.value ELSE 0) * 1000
       IN  [ n \in 1..Len(result) |->
               IF "parts" \in DOMAIN result[n]
                 THEN [ result[n] EXCEPT
                          !.startTimeMs = @ - offset,
                          !.parts = [ i \in 1..Len(@) |->
                                        [ @[i] EXCEPT !.startTimeMs = @ - offset ] ] ]
                 ELSE [ result[n] EXCEPT !.startTimeMs = @ - offset ] ]

\* parseLRC(lrcText, songDuration)
parseLRC(lrcText, songDuration) ==
  lrcOffset(lrcDurations(lrcEntries(lrcText), songDuration),
            offsetTag(lrcText, [ present |-> FALSE, numeric |-> FALSE, value |-> 0 ]))

\* the words of a part that is a single space
Space == << " " >>

\* lrcFixers, first loop over the parts of one line: the duration of a space that is
\* about as long as the word before it, or short, moves into that word
RECURSIVE mergeSpaces(_, _)
mergeSpaces(parts, i) ==
  IF i > Len(parts) THEN parts
  ELSE LET thisPart == parts[i]
           prevPart == parts[i - 1]
           deltaTime == thisPart.durationMs - prevPart.durationMs
           durationChange == thisPart.durationMs
       IN  IF /\ thisPart.words = Space /\ prevPart.words # Space
              /\ (Abs(deltaTime) <= 15 \/ thisPart.durationMs <= 100)
             THEN mergeSpaces([ parts EXCEPT ![i - 1].durationMs = @ + durationChange,
                                             ![i].durationMs = @ - durationChange,
                                             ![i].startTimeMs = @ + durationChange ], i + 1)
             ELSE mergeSpaces(parts, i + 1)

hasParts(lyric) == "parts" \in DOMAIN lyric /\ lyric.parts # << >>

\* the parts counted by the second loop: all but the last two of every line, spaces
\* excepted
countedParts(lyrics) ==
  UNION { { << n, i >> : i \in { k \in 1..(Len(lyrics[n].parts) - 2) :
                                  lyrics[n].parts[k].words # Space } } :
          n \in { m \in 1..Len(lyrics) : hasParts(lyrics[m]) } }

\* shortDurationCount / durationCount > 0.5
mostlyShort(lyrics) ==
  LET durationCount == Cardinality(countedParts(lyrics))
      shortDurationCount ==
        Cardinality({ c \in countedParts(lyrics) : lyrics[c[1]].parts[c[2]].durationMs <= 100 })
  IN  durationCount > 0 /\ 2 * shortDurationCount > durationCount

\* the third loop from part j of line i on: a part of at most 400 ms lasts until the
\* next part; lyrics[i + 1] beyond the last line is undefined and reading its parts
\* throws
RECURSIVE fudge(_, _, _)
fudge(lyrics, i, j) ==
  IF i > Len(lyrics) THEN [ threw |-> FALSE, lyrics |-> lyrics ]
  ELSE IF ~hasParts(lyrics[i]) \/ j > Len(lyrics[i].parts) THEN fudge(lyrics, i + 1, 1)
  ELSE LET part == lyrics[i].parts[j]
       IN  IF part.words = Space \/ part.durationMs > 400 THEN fudge(lyrics, i, j + 1)
           ELSE IF j < Len(lyrics[i].parts)
             THEN LET nextPart == lyrics[i].parts[j + 1]
                  IN  IF nextPart.words = Space
                        THEN fudge([ lyrics EXCEPT
                                       ![i].parts[j].durationMs = @ + nextPart.durationMs,
                                       ![i].parts[j + 1].startTimeMs = @ + nextPart.durationMs,
                                       ![i].parts[j + 1].durationMs = 0 ], i, j + 1)
                        ELSE fudge([ lyrics EXCEPT ![i].parts[j].durationMs =
                                       nextPart.startTimeMs - part.startTimeMs ], i, j + 1)
           ELSE IF i < Len(lyrics[i].parts) /\ i + 1 > Len(lyrics)
             THEN [ threw |-> TRUE, lyrics |-> lyrics ]
           ELSE IF i < Len(lyrics[i].parts) /\ hasParts(lyrics[i + 1])
             THEN LET nextPart == lyrics[i + 1].parts[1]
                  IN  IF nextPart.words = Space
                        THEN fudge([ lyrics EXCEPT
                                       ![i].parts[j].durationMs = @ + nextPart.durationMs,
                                       ![i + 1].parts[1].startTimeMs = @ + nextPart.durationMs,
                                       ![i + 1].parts[1].durationMs = 0 ], i, j + 1)
                        ELSE fudge([ lyrics EXCEPT ![i].parts[j].durationMs =
                                       nextPart.startTimeMs - part.startTimeMs ], i, j + 1)
           ELSE fudge([ lyrics EXCEPT ![i].parts[j].durationMs = 300 ], i, j + 1)

\* lrcFixers(lyrics): the lines as the repair passes leave them
lrcFixers(lyrics) ==
  LET merged == [ n \in 1..Len(lyrics) |->
                    IF "parts" \in DOMAIN lyrics[n]
                      THEN [ lyrics[n] EXCEPT !.parts = mergeSpaces(@, 2) ]
                      ELSE lyrics[n] ]
  IN  IF mostlyShort(merged) THEN fudge(merged, 1, 1)
      ELSE [ threw |-> FALSE, lyrics |-> merged ]

\* the time tags of the texts parsed: 1 s, 1.05 s, 3 s and 1 min 0.5 s
LrcTags == { TimeTag(0, 1, 0), TimeTag(0, 1, 5), TimeTag(0, 3, 0), TimeTag(1, 0, 50) }

\* the lines of the texts parsed: a line without a time tag, a line with one time tag,
\* a line repeated at two times, and lines with two and three inline tokens
LrcLines ==
  { [ timeTags |-> << >>, fragments |-> << << "x" >> >> ] }
  \cup { [ timeTags |-> << a >>, fragments |-> << << "N", " ", "l" >> >> ] : a \in LrcTags }
  \cup { [ timeTags |-> << ab[1], ab[2] >>, fragments |-> << << "r" >> >> ] :
           ab \in { p \in LrcTags \X LrcTags : p[1] # p[2] } }
  \cup { [ timeTags |-> << u >>,
           fragments |-> << << >>, u, << "H", " " >>, v, << "w" >> >> ] :
           u \in LrcTags, v \in LrcTags }
  \cup { [ timeTags |-> << u >>,
           fragments |-> << << >>, u, << "a" >>, v, << " ", " ", " " >>, w, << "b" >> >> ] :
           u \in LrcTags, v \in LrcTags, w \in LrcTags }

\* the texts parsed: one or two lines, with or without an offset tag in front
LrcTexts ==
  LET lyrics == { << a >> : a \in LrcLines } \cup { << a, b >> : a \in LrcLines, b \in LrcLines }
  IN  lyrics \cup { << [ idTag |-> "offset", value |-> 1, numeric |-> TRUE ] >> \o t :
                      t \in { << a >> : a \in LrcLines } }

\* the duration of the song handed to the providers, in seconds
SongDurations == { 5, 200 }

\* a provider has received a text for a song
InitLRC ==
  /\ \E lrcText \in LrcTexts, duration \in SongDurations :
       env = [ lrcText |-> lrcText, duration |-> duration, lyrics |-> << >> ]
  /\ AppState = initialAppState
  /\ animEngineState = initialAnimEngineState
  /\ dom = initialDom
  /\ loads = << >>
  /\ waiters = << >>
  /\ microQ = << >>
  /\ tabSelected = TRUE
  /\ cache = {}
  /\ providerPriority = defaultPreferredProviderList
  /\ trace = Step(0, "init", "", FALSE, FALSE)

\* a provider of line-synced lyrics parses the text: parseLRC(text, duration)
ParseSynced ==
  /\ env' = [ env EXCEPT !.lyrics = parseLRC(env.lrcText, env.duration) ]
  /\ trace' = Step(0, "parseSynced", "", FALSE, FALSE)
  /\ UNCHANGED << AppState, loads, waiters, microQ, providerPriority, tabSelected, cache,
                  animEngineState, dom >>

\* the provider of word-synced lyrics parses the text and repairs the result
ParseRichsync ==
  /\ LET fixed == lrcFixers(parseLRC(env.lrcText, env.duration))
     IN  /\ env' = [ env EXCEPT !.lyrics = fixed.lyrics ]
         /\ trace' = Step(0, "parseRichsync", "", fixed.threw, FALSE)
  /\ UNCHANGED << AppState, loads, waiters, microQ, providerPriority, tabSelected, cache,
                  animEngineState, dom >>

NextLRC == ParseSynced \/ ParseRichsync

SpecLRC == InitLRC /\ [][NextLRC]_vars

\* a text has been parsed
Parsed == trace.op \in { "parseSynced", "parseRichsync" } /\ ~trace.threw

\* C27: the lines of a parsed text are sorted ascending by start time, whatever the
\* order of the time tags in the text.
C27_LinesSorted ==
  Parsed => \A n \in 1..(Len(env.lyrics) - 1) :
              env.lyrics[n].startTimeMs <= env.lyrics[n + 1].startTimeMs

\* the entries of the text before any duration is filled in
Entries == lrcEntries(env.lrcText)

\* C28: every line of a parsed text but the last that was given no duration of its own
\* lasts until the start of the next line.
C28_DurationUntilNextLine ==
  Parsed => \A n \in 1..(Len(env.lyrics) - 1) :
              Entries[n].durationMs = 0 =>
                env.lyrics[n].durationMs =
                  env.lyrics[n + 1].startTimeMs - env.lyrics[n].startTimeMs

\* C29: the last line of a parsed text ends at the duration of the song, in
\* milliseconds.
C29_LastLineEndsWithSong ==
  Parsed /\ env.lyrics # << >> =>
    LET last == env.lyrics[Len(env.lyrics)]
    IN  last.startTimeMs + last.durationMs = env.duration * 1000

\* C30: in every line with parts of a text parsed and repaired, no part starts before
\* the part in front of it.
C30_PartsInOrder ==
  trace.op = "parseRichsync" /\ ~trace.threw =>
    \A n \in 1..Len(env.lyrics) :
      "parts" \in DOMAIN env.lyrics[n] =>
        \A i \in 2..Len(env.lyrics[n].parts) :
          env.lyrics[n].parts[i - 1].startTimeMs <= env.lyrics[n].parts[i].startTimeMs

\* the sum of the durations of parts
RECURSIVE SumOfDurations(_)
SumOfDurations(parts) ==
  IF parts = << >> THEN 0 ELSE parts[1].durationMs + SumOfDurations(Tail(parts))

\* C31: in every line with parts of a text parsed and repaired, the durations of the
\* parts together do not exceed the duration of the line.
C31_PartsWithinLine ==
  trace.op = "parseRichsync" /\ ~trace.threw =>
    \A n \in 1..Len(env.lyrics) :
      "parts" \in DOMAIN env.lyrics[n] =>
        SumOfDurations(env.lyrics[n].parts) <= env.lyrics[n].durationMs

\* the parsed lines after the first repair loop, as the fudging loop finds them
Merged ==
  LET lyrics == parseLRC(env.lrcText, env.duration)
  IN  [ n \in 1..Len(lyrics) |->
          IF "parts" \in DOMAIN lyrics[n]
            THEN [ lyrics[n] EXCEPT !.parts = mergeSpaces(@, 2) ]
            ELSE lyrics[n] ]

\* the part that follows part j of line n, if any: the next part of the line, or the
\* first part of the next line
Follower(lyrics, n, j) ==
  IF j < Len(lyrics[n].parts) THEN << lyrics[n].parts[j + 1] >>
  ELSE IF n < Len(lyrics) /\ hasParts(lyrics[n + 1]) THEN << lyrics[n + 1].parts[1] >>
  ELSE << >>

\* C32: when the short-duration pass is triggered it completes without raising; every
\* part that is not a space and lasts at most 400 ms then lasts until the start of the
\* part that follows it, and 300 ms when no part follows it.
C32_FudgeStretchesShortParts ==
  trace.op = "parseRichsync" /\ mostlyShort(Merged) =>
    /\ ~trace.threw
    /\ \A n \in 1..Len(Merged) : hasParts(Merged[n]) =>
         \A j \in 1..Len(Merged[n].parts) :
           LET part == Merged[n].parts[j]
               next == Follower(Merged, n, j)
           IN  part.words # Space /\ part.durationMs <= 400 =>
                 IF next = << >> THEN env.lyrics[n].parts[j].durationMs = 300
                 ELSE next[1].words # Space =>
                        env.lyrics[n].parts[j].durationMs =
                          next[1].startTimeMs - part.startTimeMs

\* C33: the fetch of yt-lyrics by the priority walk while the reference fetch of
\* yt-lyrics is still pending invokes no second adapter call, and the walk receives the
\* result of the reference fetch.
C33_OverlappingFetchesShareOneCall ==
  \A l \in 1..Len(loads) :
    /\ Cardinality({ n \in 1..Len(loads[l].calls) : loads[l].calls[n].adapter = "ytLyrics" }) <= 1
    /\ \A n \in 1..Len(loads[l].fetched) :
         /\ loads[l].fetched[n].provider = "yt-lyrics"
         /\ loads[l].ytLyricsPromise = "resolved"
         => loads[l].fetched[n].result = loads[l].ytLyrics

\* ---------------------------------------------------------------------------------
\* Bursts of load requests
\* ---------------------------------------------------------------------------------

\* a session of two media, one of them without a song title, with the reference
\* provider alone in the priority list
InitBurst ==
  /\ InitState
  /\ providerPriority = << "yt-lyrics" >>
  /\ env = [ SessionEnv(Unlinked) EXCEPT
               !.details = { Detail("X", "song", FALSE), Detail("Y", "", TRUE) } ]

\* a continuation of some createLyrics call runs
LoadStep ==
  \E l \in 1..Len(loads) :
    Match1(l) \/ Match2(l) \/ Album(l) \/ YtResolve(l) \/ CubeyReturn(l) \/ WalkReturn(l)

\* a then-callback is runnable, or some createLyrics call or its reference fetch has
\* not settled: a continuation can run
Busy ==
  \/ microQ # << >>
  \/ \E l \in 1..Len(loads) : loads[l].pc # "done" \/ loads[l].ytLyricsPromise = "pending"

\* the session in which every createLyrics call settles and every then-callback of a
\* settled promise runs: weak fairness of the continuations, with Busy as their
\* enabling condition
SpecSettles ==
  InitBurst /\ [][Next]_vars /\ ([]<>(~Busy) \/ []<><<LoadStep \/ RunThen>>_vars)

\* no request waits for a promise or for its then-callback
NoneQueued == waiters = << >> /\ microQ = << >>

\* the load started last is the load of the detail requested last, and no request has
\* cancelled it
LatestStarted ==
  /\ loads # << >>
  /\ loads[Len(loads)].detail = env.lastDetail
  /\ ~loads[Len(loads)].aborted
  /\ AppState.lyricAbortController = Len(loads)

\* C34: after a burst of requests a load of the detail requested last is eventually
\* started, and no earlier request cancels it.
C34_LatestRequestStarted ==
  /\ [](requested > 0 /\ NoneQueued => LatestStarted)
  /\ (~NoneQueued ~> NoneQueued)

\* three requests in a burst: the first load was cancelled and the load of the last
\* request runs
C34_Witness ==
  /\ Len(loads) = 3 /\ NoneQueued
  /\ loads[1].aborted /\ loads[1].detail # loads[3].detail
  /\ loads[2].detail # loads[3].detail
  /\ LatestStarted

\* ---------------------------------------------------------------------------------
\* The player-time listener and the tab handlers
\* ---------------------------------------------------------------------------------

\* the player-time events and the tab clicks of one session
MaxPlayerEvents == 3

MaxTabClicks == 2

\* the index of the lyrics tab among the three tabs
LyricsTab == 1

\* detail.song + " " + detail.artist
videoDetails(detail) == << detail.song, detail.artist >>

\* the listener of blyrics-send-player-time up to the call of the scheduler: the page
\* state it leaves and whether it calls handleModifications(detail)
playerTime(A, detail, selected, now) ==
  LET changed == detail.videoId # A.lastVideoId \/ videoDetails(detail) # A.lastVideoDetails
      waiting == changed /\ (detail.song = "" \/ detail.artist = "")
      A1 == IF changed
              THEN [ A EXCEPT !.areLyricsTicking = FALSE,
                              !.lastVideoId = detail.videoId,
                              !.lastVideoDetails = videoDetails(detail) ]
              ELSE A
      A2 == IF changed /\ ~waiting
              THEN [ A1 EXCEPT !.queueLyricInjection = TRUE, !.suppressZeroTime = now + 5000 ]
              ELSE A1
      blocked == A2.lyricInjectionFailed /\ ~selected
      inject == ~waiting /\ ~blocked /\ (A2.queueLyricInjection \/ A2.lyricInjectionFailed)
  IN  [ A |-> IF inject
                THEN [ A2 EXCEPT !.queueLyricInjection = FALSE, !.lyricInjectionFailed = FALSE ]
                ELSE A2,
        inject |-> inject,
        returned |-> waiting \/ blocked ]

\* a blyrics-send-player-time event: the listener, the call of handleModifications it
\* makes, and the scheduler tick that ends it
PlayerTime(detail, currentTime) ==
  /\ microQ = << >>
  /\ detail \in env.details
  /\ env.events < MaxPlayerEvents
  /\ LET p == playerTime(AppState, detail, tabSelected, dom.now)
         queued == p.inject /\ p.A.lyricInjectionPromise # 0
         started == p.inject /\ p.A.lyricInjectionPromise = 0
         A1 == IF started
                 THEN [ p.A EXCEPT !.lyricAbortController = Len(loads) + 1,
                                   !.lyricInjectionPromise = Len(loads) + 1 ]
                 ELSE p.A
         ticks == ~p.returned /\ (A1.suppressZeroTime < dom.now \/ currentTime # 0)
         r == animationEngine(A1, animEngineState, dom, tabSelected,
                              currentTime, dom.now, TRUE, TRUE)
     IN  /\ p.inject => requested < MaxLoads
         /\ loads' = IF queued
                       THEN [ loads EXCEPT
                                ![AppState.lyricAbortController].aborted = TRUE,
                                ![AppState.lyricAbortController].abortedInFlight =
                                   @ \/ loads[AppState.lyricAbortController].pc # "done" ]
                     ELSE IF started THEN Append(loads, NewLoad(detail))
                     ELSE loads
         /\ microQ' = IF queued /\ loads[AppState.lyricInjectionPromise].pc = "done"
                        THEN << detail >> ELSE microQ
         /\ waiters' = IF queued /\ loads[AppState.lyricInjectionPromise].pc # "done"
                         THEN Append(waiters, detail) ELSE waiters
         /\ AppState' = IF ticks THEN r.A ELSE A1
         /\ animEngineState' = IF ticks THEN r.E ELSE animEngineState
         /\ dom' = IF ticks THEN r.D ELSE dom
         /\ env' = [ ( IF p.inject THEN [ lastDetail |-> detail ] @@ env ELSE env )
                      EXCEPT !.events = @ + 1 ]
         /\ trace' = Step(IF started THEN Len(loads) + 1 ELSE 0, "playerTime", "", FALSE, FALSE)
                       @@ [ inject |-> p.inject, detail |-> detail ]
  /\ UNCHANGED << providerPriority, tabSelected, cache >>

\* a click on tab i: the page selects the tab, then the two click handlers of
\* lyricReloader run; the timeout they set is pending
TabSelect(i) ==
  /\ microQ = << >>
  /\ env.timeouts = << >>
  /\ env.clicks < MaxTabClicks
  /\ tabSelected' = (i = LyricsTab)
  /\ LET reload == i = LyricsTab /\ ~AppState.areLyricsLoaded
         G1 == [ Globals EXCEPT
                   !.dom.scrollTop = env.scrollPositions[i + 1],
                   !.dom.resumeButtonHidden = (i # LyricsTab),
                   !.areLyricsTicking = IF i # LyricsTab THEN FALSE ELSE @ ]
     IN  /\ Commit(IF reload THEN [ renderLoader(cleanup(G1), FALSE) EXCEPT !.lastVideoId = "" ]
                   ELSE G1)
         /\ env' = [ env EXCEPT !.scrollPositions[env.currentTab + 1] = dom.scrollTop,
                                !.currentTab = i,
                                !.clicks = @ + 1,
                                !.timeouts = << i >> ]
  /\ trace' = Step(0, "tabSelect", "", FALSE, FALSE)
  /\ UNCHANGED << loads, waiters, microQ, providerPriority, cache >>

\* the timeout set by the click on a tab runs
TabTimeout ==
  /\ microQ = << >>
  /\ env.timeouts # << >>
  /\ LET i == Head(env.timeouts)
     IN  /\ AppState' = [ AppState EXCEPT !.areLyricsTicking =
                            /\ AppState.areLyricsLoaded
                            /\ AppState.lyricData.syncType # "none"
                            /\ i = LyricsTab ]
         /\ dom' = [ dom EXCEPT !.scrollTop = env.scrollPositions[i + 1] ]
  /\ env' = [ env EXCEPT !.timeouts = Tail(@) ]
  /\ trace' = Step(0, "tabTimeout", "", FALSE, FALSE)
  /\ UNCHANGED << loads, waiters, microQ, providerPriority, tabSelected, cache, animEngineState >>

\* the tabs clicked and the player times reported
Tabs == { 0, 1 }

PlayerEventTimes == { 0, 10 }

\* a session of two songs; for a while the player reports the second without its title
InitPlayer ==
  /\ InitState
  /\ providerPriority = << "musixmatch-richsync", "yt-lyrics" >>
  /\ env = [ SessionEnv(Unlinked) EXCEPT
               !.details = { Detail("X", "song", FALSE), Detail("Y", "other", FALSE),
                             Detail("Y", "", FALSE) } ]
           @@ [ currentTab |-> LyricsTab, scrollPositions |-> << 0, 0, 0 >>,
                timeouts |-> << >>, events |-> 0, clicks |-> 0 ]

NextPlayer ==
  \/ \E detail \in env.details, currentTime \in PlayerEventTimes : PlayerTime(detail, currentTime)
  \/ \E i \in Tabs : TabSelect(i)
  \/ TabTimeout
  \/ TransitionEnd
  \/ RunThen
  \/ LoadStep

SpecPlayer == InitPlayer /\ [][NextPlayer]_vars

\* the video of the document installed
InstalledVideoId == loads[AppState.lyricData.load].detail.videoId

\* C35: while the video the player reports is not the video of the document installed,
\* the scheduler is not ticking, unless the change is a switch between the audio and
\* the video of one song.
C35_NoTickAgainstPreviousSong ==
  /\ ~AppState.lyricData.isNull
  /\ AppState.lyricData.load # 0
  /\ AppState.lastVideoId # ""
  /\ InstalledVideoId # AppState.lastVideoId
  /\ getMatchingSong(AppState.lastVideoId).counterpartVideoId # InstalledVideoId
  => ~AppState.areLyricsTicking

\* a load returned early because the lyrics tab was not selected, and nothing has
\* cleared the failure since
FailedOnTab == AppState.lyricInjectionFailed

\* the step starts a load
LoadStarted == Len(loads') = Len(loads) + 1

\* a player-time event of a song with its title and artist
SongEvent ==
  /\ trace'.op = "playerTime"
  /\ trace'.detail.song # "" /\ trace'.detail.artist # ""

\* the first half of C38: the player-time event that finds the failure with the tab
\* selected requests a load for the song it reports
RetriedOnceSelected ==
  FailedOnTab /\ tabSelected /\ SongEvent
  => /\ trace'.inject
     /\ env'.lastDetail = trace'.detail
     /\ ~AppState'.lyricInjectionFailed
     /\ LoadStarted => loads'[Len(loads')].detail = trace'.detail

\* the second half of C38: no load starts while the failure stands and the tab is
\* not selected
NoLoadWhileUnselected == FailedOnTab /\ ~tabSelected => ~LoadStarted

\* C38: after a load returned early because the lyrics tab is not selected, the first
\* player-time event with the tab selected requests a load for its song, and no load
\* starts while the tab stays unselected.
C38_RetryOnceTabSelected == [][RetriedOnceSelected /\ NoLoadWhileUnselected]_vars

\* ---------------------------------------------------------------------------------
\* The adapters of one query against servers that can answer in every way
\* ---------------------------------------------------------------------------------

\* the slots whose lyricSourceFiller is the adapter
OwnedSlots(adapter) == { k \in LyricSourceKey : sourceKeyToFillFn[k] = adapter }

AdapterNet ==
  [ bLyrics |-> { Outcome("neterr"),
                  BResp(FALSE, "unparseable", "none", << >>),
                  BResp(FALSE, "invalid", "none", << >>),
                  BResp(FALSE, "valid", "word", << Line(10, WordsB) >>),
                  BResp(TRUE, "valid", "line", << Line(10, WordsHalf) >>) },
    cubey |-> { Outcome("neterr"), Outcome("notok"),
                CubeyOk(Lrc(<< Line(10, WordsA) >>), NoPayload, NoPayload, NoPayload, "song") },
    lyricLib |-> { Outcome("neterr"),
                   LResp(FALSE, "null", NoPayload, NoPayload),
                   LResp(FALSE, "valid", Lrc(<< Line(10, WordsA) >>), NoPayload),
                   LResp(TRUE, "valid", NoPayload, Payload("lrc", << >>, WordsHalf)) },
    ytCaptions |-> { Outcome("notracks"), Outcome("nolang"), Outcome("neterr"),
                     Captions(<< Line(10, WordsA) >>) },
    ytLyrics |-> { YtHas(TextRef), YtNone } ]

\* a query with an empty source map; returned holds the adapters that have returned
\* normally
InitAdapters ==
  /\ InitState
  /\ providerPriority = defaultPreferredProviderList
  /\ env = [ sourceMap |-> newSourceMap, net |-> AdapterNet, returned |-> {} ]

\* getLyrics(providerParameters, source), the adapter answering with outcome o
GetLyrics(source, o) ==
  /\ LET lyricSource == env.sourceMap[source]
         adapter == sourceKeyToFillFn[source]
         res == lyricSourceFiller(adapter, env.sourceMap, o)
     IN  /\ o \in env.net[adapter]
         /\ IF ~lyricSource.filled
              THEN /\ env' = [ env EXCEPT !.sourceMap = res.sm,
                                          !.returned = IF res.threw THEN @ ELSE @ \cup { adapter } ]
                   /\ trace' = Step(0, "getLyrics", adapter, res.threw, IsFailure(adapter, o))
                                 @@ [ source |-> source, invoked |-> TRUE, o |-> o,
                                      again |-> adapter \in env.returned ]
              ELSE /\ env' = env
                   /\ trace' = Step(0, "getLyrics", adapter, FALSE, FALSE)
                                 @@ [ source |-> source, invoked |-> FALSE, o |-> Outcome("none"),
                                      again |-> FALSE ]
  /\ UNCHANGED << AppState, loads, waiters, microQ, providerPriority, tabSelected, cache >>
  /\ UNCHANGED engineVars

NextAdapters ==
  \E source \in LyricSourceKey :
    \E o \in env.net[sourceKeyToFillFn[source]] : GetLyrics(source, o)

SpecAdapters == InitAdapters /\ [][NextAdapters]_vars

\* the adapter has just been invoked
Invoked == trace.op = "getLyrics" /\ trace.invoked

\* the adapter has just received a response whose ok is false
NonOkResponse == Invoked /\ trace.o.kind = "resp" /\ ~trace.o.ok

\* every slot of the adapter is filled and null
SlotsNullAndFilled(adapter) ==
  \A k \in OwnedSlots(adapter) :
    env.sourceMap[k].filled /\ env.sourceMap[k].lyricSourceResult = NullResult

\* C36: an adapter that received a non-OK response returns normally with its slots
\* null and filled: it does not raise on the body and installs no result from it.
C36_NonOkLeavesSlotsNull ==
  NonOkResponse => ~trace.threw /\ SlotsNullAndFilled(trace.adapter)

\* C37: when an adapter has returned normally every slot it owns is filled, and a
\* later getLyrics of one of its slots does not invoke it again.
C37_ReturnFillsOwnedSlots ==
  /\ Invoked /\ ~trace.threw => \A k \in OwnedSlots(trace.adapter) : env.sourceMap[k].filled
  /\ Invoked => ~trace.again

\* ---------------------------------------------------------------------------------
\* The operation queue of EditorStateManager
\* ---------------------------------------------------------------------------------

\* the operations queued in one session of the editor
MaxOperations == 4

\* an operation as queueOperation pushes it: fails says whether its body raises; its
\* promise is "pending", "resolved" or "rejected"; started and finished tell how far
\* its body has run
Operation(fails) ==
  [ fails |-> fails, promise |-> "pending", started |-> FALSE, finished |-> FALSE ]

\* the head of the while loop of processQueue: shift the next operation and call its
\* execute, or leave the loop through the finally block
loopQueue(E) ==
  IF Len(E.operationQueue) > 0
    THEN [ E EXCEPT !.operationQueue = Tail(@),
                    !.ops[Head(E.operationQueue)].started = TRUE,
                    !.executing = @ \cup { Head(E.operationQueue) } ]
    ELSE [ E EXCEPT !.isProcessing = FALSE ]

\* a call of processQueue that passes over the test of isProcessing
processQueueUnguarded(E) ==
  IF Len(E.operationQueue) = 0
    THEN E
    ELSE loopQueue([ E EXCEPT !.isProcessing = TRUE ])

\* a call of processQueue, up to its first await
processQueue(E) ==
  IF E.isProcessing \/ Len(E.operationQueue) = 0
    THEN E
    ELSE loopQueue([ E EXCEPT !.isProcessing = TRUE ])

InitEditor ==
  /\ InitState
  /\ providerPriority = << >>
  /\ env = [ operationQueue |-> << >>, isProcessing |-> FALSE, ops |-> << >>, executing |-> {} ]

\* queueOperation(type, execute)
QueueOperation(fails) ==
  /\ Len(env.ops) < MaxOperations
  /\ env' = processQueue([ env EXCEPT !.ops = Append(@, Operation(fails)),
                                      !.operationQueue = Append(@, Len(env.ops) + 1) ])
  /\ trace' = Step(0, "queueOperation", "", FALSE, FALSE)
  /\ UNCHANGED << AppState, loads, waiters, microQ, providerPriority, tabSelected, cache >>
  /\ UNCHANGED engineVars

\* the body of an operation that is executing comes to its end, or raises: the wrapper
\* of queueOperation settles the operation's promise
OperationSettles(id) ==
  /\ id \in env.executing
  /\ ~env.ops[id].finished
  /\ env' = [ env EXCEPT !.ops[id].finished = TRUE,
                         !.ops[id].promise = IF env.ops[id].fails THEN "rejected" ELSE "resolved" ]
  /\ trace' = Step(0, "operationSettles", "", env.ops[id].fails, FALSE)
  /\ UNCHANGED << AppState, loads, waiters, microQ, providerPriority, tabSelected, cache >>
  /\ UNCHANGED engineVars

\* processQueue resumes after await operation.execute() and goes round its loop
QueueResumes(id) ==
  /\ id \in env.executing
  /\ env.ops[id].finished
  /\ env' = loopQueue([ env EXCEPT !.executing = @ \ { id } ])
  /\ trace' = Step(0, "queueResumes", "", FALSE, FALSE)
  /\ UNCHANGED << AppState, loads, waiters, microQ, providerPriority, tabSelected, cache >>
  /\ UNCHANGED engineVars

QueueStep == \E id \in 1..MaxOperations : OperationSettles(id) \/ QueueResumes(id)

NextEditor ==
  \/ \E fails \in BOOLEAN : QueueOperation(fails)
  \/ QueueStep

\* the body of an operation comes to an end, and a resumed microtask runs
SpecEditor == InitEditor /\ [][NextEditor]_vars /\ WF_vars(QueueStep)

\* the operations are started in the order they were queued, each after the one queued
\* before it has finished
OneAtATimeInOrder ==
  \A id \in 1..Len(env.ops) :
    env.ops[id].started => \A before \in 1..(id - 1) : env.ops[before].finished

\* a promise is rejected only by the failure of its own operation
RejectsOnlyItsOwn ==
  \A id \in 1..Len(env.ops) :
    /\ env.ops[id].promise = "rejected" <=> (env.ops[id].finished /\ env.ops[id].fails)
    /\ env.ops[id].promise = "resolved" <=> (env.ops[id].finished /\ ~env.ops[id].fails)

\* every operation queued has been executed
AllExecuted == \A id \in 1..Len(env.ops) : env.ops[id].finished

\* C39: the queued operations run one at a time in the order they were queued, a
\* failing operation rejects its own promise only, and every queued operation is
\* executed whatever the operations before it did.
C39_QueueIsSerialFifo ==
  /\ [](OneAtATimeInOrder /\ RejectsOnlyItsOwn)
  /\ []<>AllExecuted

\* three operations were queued while the first was executing; the first failed and the
\* ones behind it have run
C39_Witness ==
  /\ Len(env.ops) >= 3
  /\ env.ops[1].promise = "rejected"
  /\ env.ops[2].promise = "resolved"
  /\ env.ops[3].finished
  /\ ~env.isProcessing

\* ---------------------------------------------------------------------------------
\* Transient storage
\* ---------------------------------------------------------------------------------

\* the last reading of Date.now() in a session
MaxClock == 1040

\* the steps of the clock
ClockSteps == { 10 }

\* key.startsWith(prefix)
startsWith(key, prefix) ==
  Len(key) >= Len(prefix) /\ SubSeq(key, 1, Len(prefix)) = prefix

LyricsPrefix == << "b", "l", "y", "r", "i", "c", "s", "_" >>

\* two keys of the lyrics cache and one that is none
StorageKeys == { LyricsPrefix \o << "X" >>, LyricsPrefix \o << "Y" >>, << "t", "h", "e", "m", "e" >> }

TimesToLive == { 10, 20 }

\* item[name] of a stored item; a property the item does not have reads as
\* undefined, which the tests of the code take as false like 0
property(item, name) == IF name \in DOMAIN item THEN item[name] ELSE 0

\* chrome.storage.local.remove(keys)
removeKeys(local, keys) == [ k \in DOMAIN local \ keys |-> local[k] ]

\* getUpdatedCacheInfo().count
cacheCount(local) == Cardinality({ k \in DOMAIN local : startsWith(k, LyricsPrefix) })

InitStorage ==
  /\ InitState
  /\ providerPriority = << >>
  /\ env = [ local |-> << >>, now |-> 1000, cacheInfo |-> 0 ]

\* setTransientStorage(key, value, ttl)
setTransientStorage(key, ttl) ==
  /\ LET local == ( key :> [ type |-> "transient", value |-> "v", expiry |-> env.now + ttl ] )
                    @@ env.local
     IN  env' = [ env EXCEPT !.local = local, !.cacheInfo = cacheCount(local) ]
  /\ trace' = Step(0, "setTransientStorage", "", FALSE, FALSE)
  /\ UNCHANGED << AppState, loads, waiters, microQ, providerPriority, tabSelected, cache >>
  /\ UNCHANGED engineVars

\* getTransientStorage(key)
getTransientStorage(key) ==
  /\ LET isExpired == /\ key \in DOMAIN env.local
                    /\ property(env.local[key], "expiry") # 0
                    /\ env.now > property(env.local[key], "expiry")
     IN  env' = [ env EXCEPT !.local = IF isExpired THEN removeKeys(@, { key }) ELSE @ ]
  /\ trace' = Step(0, "getTransientStorage", "", FALSE, FALSE)
  /\ UNCHANGED << AppState, loads, waiters, microQ, providerPriority, tabSelected, cache >>
  /\ UNCHANGED engineVars

\* purgeExpiredKeys()
purgeExpiredKeys ==
  /\ LET keysToRemove ==
           { key \in DOMAIN env.local :
               /\ startsWith(key, LyricsPrefix)
               /\ property(env.local[key], "expiryTime") # 0
               /\ env.now >= property(env.local[key], "expiryTime") }
     IN  env' = [ env EXCEPT !.local = removeKeys(@, keysToRemove) ]
  /\ trace' = Step(0, "purgeExpiredKeys", "", FALSE, FALSE)
  /\ UNCHANGED << AppState, loads, waiters, microQ, providerPriority, tabSelected, cache >>
  /\ UNCHANGED engineVars

\* time passes
ClockAdvances ==
  /\ \E step \in ClockSteps :
       /\ env.now + step <= MaxClock
       /\ env' = [ env EXCEPT !.now = @ + step ]
  /\ trace' = Step(0, "clock", "", FALSE, FALSE)
  /\ UNCHANGED << AppState, loads, waiters, microQ, providerPriority, tabSelected, cache >>
  /\ UNCHANGED engineVars

NextStorage ==
  \/ \E key \in StorageKeys, ttl \in TimesToLive : setTransientStorage(key, ttl)
  \/ \E key \in StorageKeys : getTransientStorage(key)
  \/ purgeExpiredKeys
  \/ ClockAdvances

SpecStorage == InitStorage /\ [][NextStorage]_vars

\* the entries of the lyrics cache written by setTransientStorage whose time is over
ExpiredEntries ==
  { key \in DOMAIN env.local :
      /\ startsWith(key, LyricsPrefix)
      /\ env.local[key].type = "transient"
      /\ env.now > env.local[key].expiry }

\* C40: when purgeExpiredKeys has completed, local storage holds no entry of the lyrics
\* cache written by setTransientStorage whose expiry time has passed.
C40_PurgeRemovesExpired == trace.op = "purgeExpiredKeys" => ExpiredEntries = {}

====
